---- MODULE Spec2Model ----
(***************************************************************************)
(* Scrapify backend: the scraper adapters (BaseScraper and its seven       *)
(* subclasses), the ScraperRegistry, the ScrapingService orchestrator with *)
(* its bounded activity log, and the /scrape route around it.              *)
(*                                                                         *)
(* Conventions.                                                            *)
(*  - ScrapingOptions is [has |-> BOOLEAN, limit |-> Int]: has = FALSE is  *)
(*    "options?.limit is undefined"; limit is then 0 and never read.       *)
(*  - An upstream answer is [kind, n, bad]: kind "neterr" (the request     *)
(*    rejects), "malformed" (the payload has not the expected shape) or    *)
(*    "ok" with n items in source order; item i is identified by i, and    *)
(*    bad is the set of items whose required sub-fields are empty.         *)
(*  - A record is a sequence of <<key, value>> pairs in insertion order    *)
(*    (a JavaScript object literal); a value taken from upstream item i is *)
(*    the string V(i).  Text (CSV, XML) is a sequence of string tokens.    *)
(*  - An error message is a sequence of words.                             *)
(*  - Date.now() / toISOString() values are not modelled; an activity      *)
(*    entry carries instead seq, the number of the append that made it.    *)
(***************************************************************************)
EXTENDS Integers, Sequences, FiniteSets, TLC

\* ------------------------------------------------------------------ bounds
MaxCalls == 2
LogCalls == 150
MaxItems == 3
MaxInFlight == 2
MaxRegistrations == 3
MaxRows == 2
BurstSize == 4
\* RATE_LIMIT_MAX_REQUESTS and RATE_LIMIT_WINDOW_MS as the deployment sets them (the
\* window in clock ticks); the clock runs to MaxNow; a client keeps sending until its
\* count is MaxOver past the maximum
MAX_REQUESTS == 2
WINDOW_MS == 2
MaxNow == 6
MaxOver == 2

\* ------------------------------------------------------- program constants
HistoryCap == 100
GitHubMax == 100
TuringMax == 1000
SteamMax == 50
MinMarkets == 20
QuickBooksPlans == 4
DefaultTimeout == 30000

Min(a, b) == IF a < b THEN a ELSE b
Max(a, b) == IF a > b THEN a ELSE b

\* Array.prototype.slice(b, e) on a sequence (relative indices, 0-based, e exclusive)
Slice(s, b, e) ==
    LET len  == Len(s)
        from == IF b < 0 THEN Max(len + b, 0) ELSE Min(b, len)
        to   == IF e < 0 THEN Max(len + e, 0) ELSE Min(e, len)
    IN  IF to > from THEN SubSeq(s, from + 1, to) ELSE << >>

\* Array.prototype.includes on a sequence
Includes(s, x) == \E i \in 1..Len(s) : s[i] = x

\* Array.prototype.filter, keeping order
RECURSIVE Filter(_, _)
Filter(s, keep) ==
    IF s = << >> THEN << >>
    ELSE IF Head(s) \in keep THEN <<Head(s)>> \o Filter(Tail(s), keep)
         ELSE Filter(Tail(s), keep)

\* ---------------------------------------------------------------- adapters
Bullish    == "bullish-markets"
GitHub     == "github-most-starred"
Turing     == "turing-remote-jobs"
QuickBooks == "quickbooks-pricing"
Spotify    == "spotify-most-followed"
Steam      == "steam-top-sellers"
Epic       == "epic-games-top-sellers"

HttpAdapters == {Bullish, GitHub, Turing, QuickBooks, Spotify, Steam}
Adapters == HttpAdapters \cup {Epic}

\* the ScraperConfig each constructor passes to super()
ScraperConfig(a) ==
    [id |-> a, enabled |-> TRUE, supportedFormats |-> <<"json", "csv">>,
     defaultFormat |-> "json", timeout |-> IF a = Epic THEN 60000 ELSE 30000]

\* new XScraper(): the adapter object, holding its config
NewScraper(a) == [class |-> a, config |-> ScraperConfig(a)]

getConfig(scraper) == scraper.config

\* a scraper object whose descriptor has enabled: false
Disabled(a) == [class |-> a, config |-> [ScraperConfig(a) EXCEPT !.enabled = FALSE]]

\* a scraper object of class a whose descriptor carries the id of another adapter
Renamed(a, id) == [class |-> a, config |-> [ScraperConfig(a) EXCEPT !.id = id]]

\* a supportsFormat that accepts every format
supportsFormatAny(scraper, format) == TRUE

supportsFormat(scraper, format) == Includes(getConfig(scraper).supportedFormats, format)

NoOptions == [has |-> FALSE, limit |-> 0]
WithLimit(l) == [has |-> TRUE, limit |-> l]

\* JavaScript truthiness of options?.limit
Truthy(options) == options.has /\ options.limit # 0

\* validateOptions throws 'Limit must be greater than 0'
validateOptionsThrows(options) == Truthy(options) /\ options.limit < 1

LimitError == <<"Limit", "must", "be", "greater", "than", "0">>

\* options?.limit || d
LimitOr(options, d) == IF Truthy(options) THEN options.limit ELSE d

\* an applyLimit that keeps the last `limit` elements
applyLimitTail(data, options) ==
    IF Truthy(options) /\ options.limit > 0
    THEN Slice(data, 0 - options.limit, Len(data))
    ELSE data

applyLimit(data, options) ==
    IF Truthy(options) /\ options.limit > 0
    THEN Slice(data, 0, options.limit)
    ELSE data

\* ------------------------------------------------------- adapter results
\* What scrape() settles with: ok = the promise resolves with {data, recordCount};
\* otherwise it rejects with Error(err). extracted = the records built before any
\* limit was applied, net = upstream requests issued, pageSize = the count the
\* request asked upstream for (0 when the request carries none).
\* a result whose recordCount counts the records before the limit was applied
ResolvedCountsExtracted(data, extracted, net, pageSize) ==
    [ok |-> TRUE, data |-> data, recordCount |-> Len(extracted), err |-> << >>,
     extracted |-> extracted, net |-> net, pageSize |-> pageSize]

Resolved(data, extracted, net, pageSize) ==
    [ok |-> TRUE, data |-> data, recordCount |-> Len(data), err |-> << >>,
     extracted |-> extracted, net |-> net, pageSize |-> pageSize]

Rejected(err, net, pageSize) ==
    [ok |-> FALSE, data |-> << >>, recordCount |-> 0, err |-> err,
     extracted |-> << >>, net |-> net, pageSize |-> pageSize]

\* messages of the errors raised below the adapters
NetworkMessage == <<"Request", "failed", "with", "status", "code", "500">>
TypeErrorMessage == <<"Cannot", "read", "properties", "of", "undefined">>

\* `Failed to scrape X: ${error.message}` of each adapter's catch block
FailedPrefix(a) ==
    CASE a = Bullish    -> <<"Failed", "to", "scrape", "Bullish", "markets:">>
      [] a = GitHub     -> <<"Failed", "to", "scrape", "GitHub", "repositories:">>
      [] a = Turing     -> <<"Failed", "to", "scrape", "Turing", "jobs:">>
      [] a = QuickBooks -> <<"Failed", "to", "scrape", "QuickBooks", "pricing:">>
      [] a = Spotify    -> <<"Failed", "to", "scrape", "Spotify", "Most", "Followed", "Artists:">>
      [] a = Steam      -> <<"Failed", "to", "scrape", "Steam", "top", "sellers:">>
      [] a = Epic       -> <<"Failed", "to", "scrape", "Epic", "Games", "Top", "Sellers:">>

\* a catch block that takes the `'Unknown error'` branch for every error
WrapUnknownError(a, message) == FailedPrefix(a) \o <<"Unknown", "error">>

\* catch (error): throw new Error(`Failed to scrape ...: ${error.message}`)
Wrap(a, message) == FailedPrefix(a) \o message

\* the items of an "ok" upstream answer, in source order
Items(up) == [i \in 1..up.n |-> i]

\* the value a field takes from upstream item i
V(i) == ToString(i)

\* Array.prototype.map
Map(s, F(_)) == [i \in 1..Len(s) |-> F(s[i])]

GitHubRecord(i) ==
    << <<"id", V(i)>>, <<"name", V(i)>>, <<"fullName", V(i)>>, <<"description", V(i)>>,
       <<"stars", V(i)>>, <<"url", V(i)>>, <<"language", V(i)>>, <<"owner", V(i)>>,
       <<"topics", V(i)>> >>

\* a scrape that asks GitHub for as many repositories as the caller's limit says
GitHubScrapeUnclamped(options, up) ==
    IF validateOptionsThrows(options) THEN Rejected(LimitError, 0, 0)
    ELSE LET limit == LimitOr(options, GitHubMax)
         IN  CASE up.kind = "neterr"    -> Rejected(Wrap(GitHub, NetworkMessage), 1, limit)
               [] up.kind = "malformed" -> Rejected(Wrap(GitHub, TypeErrorMessage), 1, limit)
               [] OTHER ->
                    Resolved(Map(Items(up), GitHubRecord), Map(Items(up), GitHubRecord),
                             1, limit)

GitHubScrape(options, up) ==
    IF validateOptionsThrows(options) THEN Rejected(LimitError, 0, 0)
    ELSE LET limit == Min(LimitOr(options, GitHubMax), GitHubMax)
         IN  CASE up.kind = "neterr"    -> Rejected(Wrap(GitHub, NetworkMessage), 1, limit)
               [] up.kind = "malformed" -> Rejected(Wrap(GitHub, TypeErrorMessage), 1, limit)
               [] OTHER ->
                    LET repositories == Map(Items(up), GitHubRecord)
                    IN  Resolved(repositories, repositories, 1, limit)

TuringRecord(i) ==
    << <<"jobId", V(i)>>, <<"createdDate", V(i)>>, <<"updatedDate", V(i)>>, <<"industry", V(i)>>,
       <<"customerWeeklyHourEngagement", V(i)>>, <<"publishedOnJobBoard", V(i)>>,
       <<"role", V(i)>>, <<"companySize", V(i)>>, <<"publicTitle", V(i)>>, <<"isActive", V(i)>>,
       <<"showOnJobBoard", V(i)>>, <<"fulfilmentProbability", V(i)>>,
       <<"directApplyUrl", V(i)>>, <<"description", V(i)>> >>

\* kind "null": response.data is null/undefined, replaced by []
TuringScrape(options, up) ==
    IF validateOptionsThrows(options) THEN Rejected(LimitError, 0, 0)
    ELSE LET limit == Min(LimitOr(options, TuringMax), TuringMax)
         IN  CASE up.kind = "neterr"    -> Rejected(Wrap(Turing, NetworkMessage), 1, limit)
               [] up.kind = "malformed" -> Rejected(Wrap(Turing, TypeErrorMessage), 1, limit)
               [] OTHER ->
                    LET jobs == IF up.kind = "null" THEN << >> ELSE Items(up)
                        processedJobs == Map(jobs, TuringRecord)
                    IN  Resolved(processedJobs, processedJobs, 1, limit)

SteamRecord(i) ==
    << <<"rank", V(i)>>, <<"appId", V(i)>>, <<"title", V(i)>>, <<"url", V(i)>>, <<"imageUrl", V(i)>>,
       <<"releaseDate", V(i)>>, <<"reviewScore", V(i)>>, <<"reviewPercentage", V(i)>>,
       <<"reviewCount", V(i)>>, <<"priceFinal", V(i)>>, <<"priceOriginal", V(i)>>,
       <<"discountPercentage", V(i)>>, <<"platforms", V(i)>>, <<"creatorIds", V(i)>>,
       <<"itemKey", V(i)>> >>

parseHTML(up) == Map(Items(up), SteamRecord)

\* kind "malformed": success !== 1 or results_html empty
SteamScrape(options, up) ==
    IF validateOptionsThrows(options) THEN Rejected(LimitError, 0, 0)
    ELSE LET limit == Min(LimitOr(options, SteamMax), SteamMax)
         IN  CASE up.kind = "neterr"    -> Rejected(Wrap(Steam, NetworkMessage), 1, limit)
               [] up.kind = "malformed" ->
                    Rejected(Wrap(Steam, <<"Invalid", "response", "from", "Steam", "API">>), 1, limit)
               [] OTHER ->
                    LET games == parseHTML(up)
                        processedGames == Slice(games, 0, limit)
                    IN  Resolved(processedGames, games, 1, limit)

\* the elements/offers of an upstream answer whose required sub-fields are present
Usable(up) == Filter(Items(up), (1..up.n) \ up.bad)

\* rank: index + 1, the element's position among all matches
BullishRecord(i, totalMarkets) ==
    << <<"market", V(i)>>, <<"volume24Hrs", V(i)>>, <<"totalMarkets", ToString(totalMarkets)>>,
       <<"totalVolume24Hrs", "total">>, <<"rank", V(i)>> >>

\* a scrape that ranks each market by its place among the usable elements
BullishScrapeRanksUsable(options, up) ==
    IF validateOptionsThrows(options) THEN Rejected(LimitError, 0, 0)
    ELSE CASE up.kind = "neterr" -> Rejected(Wrap(Bullish, NetworkMessage), 1, 0)
           [] up.n < MinMarkets -> Rejected(Wrap(Bullish, <<"Not", "enough", "markets">>), 1, 0)
           [] OTHER ->
                LET usable == Usable(up)
                    marketsData == [k \in 1..Len(usable) |->
                                      << <<"market", V(usable[k])>>,
                                         <<"volume24Hrs", V(usable[k])>>,
                                         <<"totalMarkets", ToString(up.n)>>,
                                         <<"totalVolume24Hrs", "total">>,
                                         <<"rank", ToString(k)>> >>]
                IN  IF Len(marketsData) = 0
                    THEN Rejected(Wrap(Bullish, <<"No", "market", "data">>), 1, 0)
                    ELSE Resolved(applyLimit(marketsData, options), marketsData, 1, 0)

BullishScrape(options, up) ==
    IF validateOptionsThrows(options) THEN Rejected(LimitError, 0, 0)
    ELSE CASE up.kind = "neterr" -> Rejected(Wrap(Bullish, NetworkMessage), 1, 0)
           [] up.n < MinMarkets ->
                Rejected(Wrap(Bullish, <<"Not", "enough", "markets", "found", "on", "Bullish.com">>), 1, 0)
           [] OTHER ->
                LET usable == Usable(up)
                    marketsData == [k \in 1..Len(usable) |-> BullishRecord(usable[k], up.n)]
                    limitedData == applyLimit(marketsData, options)
                IN  IF Len(marketsData) = 0
                    THEN Rejected(Wrap(Bullish, <<"No", "market", "data", "could", "be", "parsed",
                                                  "from", "Bullish.com">>), 1, 0)
                    ELSE Resolved(limitedData, marketsData, 1, 0)

QuickBooksRecord(i) ==
    << <<"plan", V(i)>>, <<"price", V(i)>>, <<"discountedPrice", V(i)>>, <<"category", V(i)>>,
       <<"discountDuration", V(i)>>, <<"discountUnit", V(i)>>, <<"offerName", V(i)>>,
       <<"offerId", V(i)>> >>

\* kind "malformed": data.campaigns.default.default.QBO is missing
QuickBooksScrape(options, up) ==
    IF validateOptionsThrows(options) THEN Rejected(LimitError, 0, 0)
    ELSE CASE up.kind = "neterr" -> Rejected(Wrap(QuickBooks, NetworkMessage), 1, 0)
           [] up.kind = "malformed" ->
                Rejected(Wrap(QuickBooks, <<"Invalid", "QuickBooks", "pricing", "data",
                                            "structure">>), 1, 0)
           [] OTHER ->
                LET pricingData == Map(Usable(up), QuickBooksRecord)
                    limitedData == applyLimit(pricingData, options)
                IN  IF Len(pricingData) = 0
                    THEN Rejected(Wrap(QuickBooks, <<"No", "QuickBooks", "pricing", "data",
                                                     "could", "be", "extracted">>), 1, 0)
                    ELSE Resolved(limitedData, pricingData, 1, 0)

SpotifyRecord(i) ==
    << <<"rank", V(i)>>, <<"artist", V(i)>>, <<"followers", V(i)>>, <<"dailyChange", V(i)>>,
       <<"weeklyChange", V(i)>>, <<"spotifyId", V(i)>>, <<"gender", V(i)>>, <<"genre", V(i)>>,
       <<"country", V(i)>>, <<"language", V(i)>> >>

\* kind "malformed": responseData or responseData.data is missing
SpotifyScrape(options, up) ==
    IF validateOptionsThrows(options) THEN Rejected(LimitError, 0, 0)
    ELSE CASE up.kind = "neterr" -> Rejected(Wrap(Spotify, NetworkMessage), 1, 0)
           [] up.kind = "malformed" ->
                Rejected(Wrap(Spotify, <<"Invalid", "response", "structure", "from",
                                         "ChartMasters", "API">>), 1, 0)
           [] up.n = 0 ->
                Rejected(Wrap(Spotify, <<"No", "artist", "data", "found", "in",
                                         "ChartMasters", "response">>), 1, 0)
           [] OTHER ->
                LET transformedArtists == Map(Items(up), SpotifyRecord)
                    limitedData == applyLimit(transformedArtists, options)
                IN  Resolved(limitedData, transformedArtists, 1, 0)

\* the first attempt of the retrying scrape() below
HttpScrapeOnce(a, options, up) ==
    CASE a = Bullish    -> BullishScrape(options, up)
      [] a = GitHub     -> GitHubScrape(options, up)
      [] a = Turing     -> TuringScrape(options, up)
      [] a = QuickBooks -> QuickBooksScrape(options, up)
      [] a = Spotify    -> SpotifyScrape(options, up)
      [] a = Steam      -> SteamScrape(options, up)

\* a scrape() that repeats its request once after a failed one
HttpScrapeRetriesOnce(a, options, up) ==
    LET first == HttpScrapeOnce(a, options, up)
    IN  IF ~first.ok /\ first.net = 1 THEN [first EXCEPT !.net = 2] ELSE first

\* scrape() of the six adapters that make one HTTP request
HttpScrape(a, options, up) ==
    CASE a = Bullish    -> BullishScrape(options, up)
      [] a = GitHub     -> GitHubScrape(options, up)
      [] a = Turing     -> TuringScrape(options, up)
      [] a = QuickBooks -> QuickBooksScrape(options, up)
      [] a = Spotify    -> SpotifyScrape(options, up)
      [] a = Steam      -> SteamScrape(options, up)

\* ------------------------------------------------------------- formatter
Keys(record) == [k \in 1..Len(record) |-> record[k][1]]

\* row[header]; a missing key is undefined, which join() renders as ''
Get(record, key) ==
    IF \E k \in 1..Len(record) : record[k][1] = key
    THEN record[CHOOSE k \in 1..Len(record) :
                   record[k][1] = key /\ \A j \in (k + 1)..Len(record) : record[j][1] # key][2]
    ELSE ""

\* the string values that contain a comma
CommaValues == {"a,b"}

\* Array.prototype.join over token sequences
RECURSIVE Join(_, _)
Join(parts, sep) ==
    IF parts = << >> THEN << >>
    ELSE IF Len(parts) = 1 THEN parts[1]
         ELSE parts[1] \o <<sep>> \o Join(Tail(parts), sep)

\* Array.prototype.join('')
RECURSIVE Concat(_)
Concat(parts) == IF parts = << >> THEN << >> ELSE parts[1] \o Concat(Tail(parts))

\* a convertToCSV that writes each row's values in the row's own key order
convertToCSVOwnOrder(data) ==
    IF Len(data) = 0 THEN << >>
    ELSE LET headers == Keys(data[1])
             Row(row) == Join([h \in 1..Len(row) |-> <<row[h][2]>>], ",")
             csvRows == <<Join([h \in 1..Len(headers) |-> <<headers[h]>>], ",")>>
                        \o [r \in 1..Len(data) |-> Row(data[r])]
         IN  Join(csvRows, "\n")

convertToCSV(data) ==
    IF Len(data) = 0 THEN << >>
    ELSE LET headers == Keys(data[1])
             Cell(row, header) ==
                 LET value == Get(row, header)
                 IN  IF value \in CommaValues THEN <<"\"", value, "\"">> ELSE <<value>>
             Row(row) == Join([h \in 1..Len(headers) |-> Cell(row, headers[h])], ",")
             csvRows == <<Join([h \in 1..Len(headers) |-> <<headers[h]>>], ",")>>
                        \o [r \in 1..Len(data) |-> Row(data[r])]
         IN  Join(csvRows, "\n")

\* a convertToXML that numbers the items from 1
convertToXMLOneBased(data) ==
    LET Child(pair) == <<"<", pair[1], ">", pair[2], "</", pair[1], ">">>
        itemXml(item) == Concat([k \in 1..Len(item) |-> Child(item[k])])
        xmlRows == [r \in 1..Len(data) |->
                       <<"<item id=\"", ToString(r), "\">">> \o itemXml(data[r]) \o <<"</item>">>]
    IN  <<"<data>">> \o Concat(xmlRows) \o <<"</data>">>

convertToXML(data) ==
    LET Child(pair) == <<"<", pair[1], ">", pair[2], "</", pair[1], ">">>
        itemXml(item) == Concat([k \in 1..Len(item) |-> Child(item[k])])
        xmlRows == [r \in 1..Len(data) |->
                       <<"<item id=\"", ToString(r - 1), "\">">> \o itemXml(data[r]) \o <<"</item>">>]
    IN  <<"<data>">> \o Concat(xmlRows) \o <<"</data>">>

\* a formatData whose default branch falls into the CSV conversion
formatDataDefaultCsv(data, format) ==
    CASE format = "xml" -> convertToXML(data)
      [] OTHER -> convertToCSV(data)

formatData(data, format) ==
    CASE format = "csv" -> convertToCSV(data)
      [] format = "xml" -> convertToXML(data)
      [] OTHER -> data

\* JSON.stringify of an object with string values, as one run of text
Stringify(object) ==
    <<"{">>
    \o Join([k \in 1..Len(object) |->
                <<"\"", object[k][1], "\":\"", object[k][2], "\"">>], ",")
    \o <<"}">>

\* formatData on a value that is not an array (here: a single object): the
\* `!Array.isArray(data)` branches of the two converters
formatDataNonArray(object, format) ==
    CASE format = "csv" -> << >>
      [] format = "xml" -> <<"<data>">> \o Stringify(object) \o <<"</data>">>
      [] OTHER -> object

\* ------------------------------------------------- BaseScraper.getMergedOptions
\* `key in object`
HasKey(object, key) == \E k \in 1..Len(object) : object[k][1] = key

\* { ...a, ...b }: a's keys in place with b's values where b has them, then b's new keys
Spread(a, b) ==
    [k \in 1..Len(a) |-> <<a[k][1], IF HasKey(b, a[k][1]) THEN Get(b, a[k][1]) ELSE a[k][2]>>]
    \o SelectSeq(b, LAMBDA pair : ~HasKey(a, pair[1]))

\* The timeout/headers part of a ScrapingOptions argument: given = FALSE is a call
\* without options; hasTimeout / hasHeaders say whether the object has the property.
NoCallOptions ==
    [given |-> FALSE, hasTimeout |-> FALSE, timeout |-> 0, hasHeaders |-> FALSE,
     headers |-> << >>]

CallOptions(hasTimeout, timeout, hasHeaders, headers) ==
    [given |-> TRUE, hasTimeout |-> hasTimeout, timeout |-> timeout,
     hasHeaders |-> hasHeaders, headers |-> headers]

\* config is the descriptor's [timeout, headers], timeout 0 standing for none.  The
\* literal's own timeout and headers come first and `...options` last, so a property
\* the options object has replaces the one computed before it.
getMergedOptions(config, options) ==
    LET timeout == IF config.timeout # 0 THEN config.timeout ELSE DefaultTimeout
        headers == Spread(config.headers,
                          IF options.given /\ options.hasHeaders THEN options.headers
                          ELSE << >>)
    IN  [timeout |-> IF options.given /\ options.hasTimeout THEN options.timeout
                     ELSE timeout,
         headers |-> IF options.given /\ options.hasHeaders THEN options.headers
                     ELSE headers]

\* ----------------------------------------------------------------- state
VARIABLES
    scrapers,          \* ScraperRegistry.scrapers: Map id -> adapter, as entries in insertion order
    scraperConfigs,    \* ScraperRegistry.scraperConfigs: Map id -> ScraperConfig
    scrapingHistory,   \* ScrapingService.scrapingHistory
    appends,           \* how often logScrapingActivity has pushed
    started,           \* how many /scrape requests have been received
    pending,           \* scrapeData calls suspended at `await scraper.scrape(...)`
    last,              \* the /scrape request that finished most recently
    workload,          \* which requests this run makes (fixed at the start)
    inv,               \* scrape() invocations made on the adapters directly, by slot
    browserField,      \* EpicGamesTopSellersScraper.browser, the instance's private field
    requestCounts,     \* rateLimiter's Map clientIP -> {count, resetTime} ("none" = no entry)
    now,               \* Date.now() at the most recent request
    rate               \* what rateLimiter did with the most recent request

vars == <<scrapers, scraperConfigs, scrapingHistory, appends, started, pending, last,
          workload, inv, browserField, requestCounts, now, rate>>

\* ---------------------------------------------------------------- registry
\* Map.prototype.set: a present key keeps its place, a new key goes last
MapSet(m, key, value) ==
    IF \E k \in 1..Len(m) : m[k].key = key
    THEN [k \in 1..Len(m) |-> IF m[k].key = key THEN [key |-> key, value |-> value] ELSE m[k]]
    ELSE Append(m, [key |-> key, value |-> value])

MapHas(m, key) == \E k \in 1..Len(m) : m[k].key = key

\* Map.prototype.get; only used under MapHas
MapGet(m, key) == m[CHOOSE k \in 1..Len(m) : m[k].key = key].value

\* a register that leaves the descriptor of an id that is already present alone
registerKeepsFirstConfig(maps, scraper) ==
    LET config == getConfig(scraper)
    IN  [scrapers       |-> MapSet(maps.scrapers, config.id, scraper),
         scraperConfigs |-> IF MapHas(maps.scraperConfigs, config.id)
                            THEN maps.scraperConfigs
                            ELSE MapSet(maps.scraperConfigs, config.id, config)]

\* register(scraper) applied to the two maps
register(maps, scraper) ==
    LET config == getConfig(scraper)
    IN  [scrapers       |-> MapSet(maps.scrapers, config.id, scraper),
         scraperConfigs |-> MapSet(maps.scraperConfigs, config.id, config)]

\* the adapters initializeScrapers() registers, in order
InitialScrapers == <<Bullish, GitHub, Turing, QuickBooks, Spotify>>

RECURSIVE RegisterAll(_, _)
RegisterAll(maps, classes) ==
    IF classes = << >> THEN maps
    ELSE RegisterAll(register(maps, NewScraper(Head(classes))), Tail(classes))

initializeScrapers == RegisterAll([scrapers |-> << >>, scraperConfigs |-> << >>], InitialScrapers)

\* Array.from(map.values())
MapValues(m) == [k \in 1..Len(m) |-> m[k].value]

\* Array.from(map.keys())
MapKeys(m) == [k \in 1..Len(m) |-> m[k].key]

\* the indices of s whose element passes the test, in order
RECURSIVE Kept(_, _)
Kept(flags, k) ==
    IF k > Len(flags) THEN << >>
    ELSE (IF flags[k] THEN <<k>> ELSE << >>) \o Kept(flags, k + 1)

\* a getAllConfigs without the filter on config.enabled
getAllConfigsUnfiltered(configs) == MapValues(configs)

\* getAllConfigs(): the values of the descriptor map whose enabled flag is set
getAllConfigs(configs) ==
    LET values == MapValues(configs)
        kept == Kept([k \in 1..Len(values) |-> values[k].enabled], 1)
    IN  [j \in 1..Len(kept) |-> values[kept[j]]]

\* ScraperRegistry.getConfig(id); only used under MapHas
getConfigById(id) == MapGet(scraperConfigs, id)

hasScraper(id) == MapHas(scrapers, id)

getScraper(id) == MapGet(scrapers, id)

\* ------------------------------------------------------------ orchestrator
NotFoundError(source) == <<"Scraping", "source", source, "not", "found">>

UnsupportedError(format, source) ==
    <<"Format", format, "not", "supported", "for", "source", source>>

\* a log that, once full, keeps its oldest entries and drops the new one
logScrapingActivityKeepsOldest(history, n, call, source, format, recordCount, success) ==
    LET pushed == Append(history, [seq |-> n + 1, call |-> call,
                                   source |-> source, format |-> format,
                                   recordCount |-> recordCount, success |-> success])
    IN  IF Len(pushed) > HistoryCap
        THEN Slice(pushed, 0, HistoryCap)
        ELSE pushed

\* a log kept in the order the calls started: the entry goes before the entries of
\* calls that started later
logScrapingActivityByStart(history, n, call, source, format, recordCount, success) ==
    LET entry == [seq |-> n + 1, call |-> call, source |-> source, format |-> format,
                  recordCount |-> recordCount, success |-> success]
        earlier == SelectSeq(history, LAMBDA e : e.call < call)
        later == SelectSeq(history, LAMBDA e : e.call >= call)
        pushed == earlier \o <<entry>> \o later
    IN  IF Len(pushed) > HistoryCap
        THEN Slice(pushed, 0 - HistoryCap, Len(pushed))
        ELSE pushed

\* logScrapingActivity: push, then keep the last HistoryCap entries
logScrapingActivity(history, n, call, source, format, recordCount, success) ==
    LET pushed == Append(history, [seq |-> n + 1, call |-> call,
                                   source |-> source, format |-> format,
                                   recordCount |-> recordCount, success |-> success])
    IN  IF Len(pushed) > HistoryCap
        THEN Slice(pushed, 0 - HistoryCap, Len(pushed))
        ELSE pushed

\* a scrapeData that looks the source up but does not check the format
scrapeDataValidateSourceOnly(request) ==
    IF ~hasScraper(request.source)
    THEN [ok |-> FALSE, error |-> NotFoundError(request.source)]
    ELSE [ok |-> TRUE, error |-> << >>]

\* scrapeData up to `const startTime`: the error thrown before anything else happens
scrapeDataValidate(request) ==
    IF ~hasScraper(request.source)
    THEN [ok |-> FALSE, error |-> NotFoundError(request.source)]
    ELSE IF ~supportsFormat(getScraper(request.source), request.format)
         THEN [ok |-> FALSE, error |-> UnsupportedError(request.format, request.source)]
         ELSE [ok |-> TRUE, error |-> << >>]

\* a scrapeData whose catch block rethrows without logging
scrapeDataSettleSilentCatch(history, n, call, result) ==
    IF result.ok
    THEN [returned |-> TRUE,
          data |-> formatData(result.data, call.format),
          recordCount |-> result.recordCount,
          error |-> << >>,
          pushes |-> 1,
          history |-> logScrapingActivity(history, n, call.id, call.source, call.format,
                                          result.recordCount, TRUE)]
    ELSE [returned |-> FALSE, data |-> << >>, recordCount |-> 0, error |-> result.err,
          pushes |-> 0,
          history |-> history]

\* a scrapeData whose catch block logs and hands the failure back as a value
scrapeDataSettleReturnsFailure(history, n, call, result) ==
    [returned |-> TRUE,
     data |-> IF result.ok THEN formatData(result.data, call.format) ELSE << >>,
     recordCount |-> IF result.ok THEN result.recordCount ELSE 0,
     error |-> IF result.ok THEN << >> ELSE result.err,
     pushes |-> 1,
     history |-> logScrapingActivity(history, n, call.id, call.source, call.format,
                                     IF result.ok THEN result.recordCount ELSE 0, result.ok)]

\* scrapeData from the settled adapter promise on: the try block's tail, or the catch
scrapeDataSettle(history, n, call, result) ==
    IF result.ok
    THEN [returned |-> TRUE,
          data |-> formatData(result.data, call.format),
          recordCount |-> result.recordCount,
          error |-> << >>,
          pushes |-> 1,
          history |-> logScrapingActivity(history, n, call.id, call.source, call.format,
                                          result.recordCount, TRUE)]
    ELSE [returned |-> FALSE,
          data |-> << >>,
          recordCount |-> 0,
          error |-> result.err,
          pushes |-> 1,
          history |-> logScrapingActivity(history, n, call.id, call.source, call.format,
                                          0, FALSE)]

\* getAvailableSources(): one ScrapingSource per enabled descriptor
getAvailableSources(configs) ==
    LET enabled == getAllConfigs(configs)
    IN  [k \in 1..Len(enabled) |->
            [id |-> enabled[k].id, enabled |-> enabled[k].enabled,
             supportedFormats |-> enabled[k].supportedFormats,
             defaultFormat |-> enabled[k].defaultFormat]]

\* Array.prototype.reverse
Reverse(s) == [k \in 1..Len(s) |-> s[Len(s) + 1 - k]]

\* number of entries getScrapingStatus reports as recent
RecentCount == 10

\* a getScrapingStatus that takes the ten oldest entries
getScrapingStatusOldest(configs, history) ==
    [activeSources |-> Len(getAllConfigs(configs)),
     totalScrapes |-> Len(history),
     recentActivity |-> Reverse(Slice(history, 0, RecentCount)),
     systemHealth |-> "healthy"]

\* getScrapingStatus()
getScrapingStatus(configs, history) ==
    [activeSources |-> Len(getAllConfigs(configs)),
     totalScrapes |-> Len(history),
     recentActivity |-> Reverse(Slice(history, 0 - RecentCount, Len(history))),
     systemHealth |-> "healthy"]

NoStatus == [activeSources |-> 0, totalScrapes |-> 0, recentActivity |-> << >>,
             systemHealth |-> ""]

\* ------------------------------------------------------------------- route
\* what router.post('/scrape') answers, and what the request did on the way
NoResponse == [status |-> 0, success |-> FALSE, error |-> << >>, recordCount |-> 0]

\* no getMergedOptions call seen yet
NoMerged ==
    [config |-> [timeout |-> 0, headers |-> << >>], options |-> NoCallOptions,
     timeout |-> 0, headers |-> << >>]

NoLast ==
    [kind |-> "none", id |-> 0, source |-> "", format |-> "", options |-> NoOptions,
     invoked |-> 0, net |-> 0, appended |-> 0,
     adapterOk |-> FALSE, adapterCount |-> 0, adapterData |-> << >>,
     data |-> << >>, recordCount |-> 0, error |-> << >>, response |-> NoResponse,
     status |-> NoStatus, sources |-> << >>, merged |-> NoMerged]

MissingFields == <<"Missing", "required", "fields">>

\* the request lacks source or format: 400, scrapeData is not called
ScrapeMissing(request) ==
    /\ request.source = "" \/ request.format = ""
    /\ started < MaxCalls
    /\ started' = started + 1
    /\ last' = [NoLast EXCEPT !.kind = "missing", !.id = started + 1,
                              !.source = request.source,
                              !.format = request.format, !.options = request.options,
                              !.error = MissingFields,
                              !.response = [status |-> 400, success |-> FALSE,
                                            error |-> MissingFields, recordCount |-> 0]]
    /\ UNCHANGED <<scrapers, scraperConfigs, scrapingHistory, appends, pending, workload, inv, browserField, requestCounts, now, rate>>

\* a scrapeData that logs a failure entry before it throws a validation error
ScrapeBeginLogsRejected(request, budget, inflight) ==
    /\ request.source # "" /\ request.format # ""
    /\ started < budget
    /\ Len(pending) < inflight
    /\ started' = started + 1
    /\ LET checked == scrapeDataValidate(request)
       IN  IF checked.ok
           THEN /\ pending' = Append(pending,
                                     [id |-> started + 1,
                                      source |-> request.source, format |-> request.format,
                                      options |-> request.options,
                                      scraper |-> getScraper(request.source), invoked |-> 1])
                /\ UNCHANGED <<last, scrapingHistory, appends>>
           ELSE /\ last' = [NoLast EXCEPT !.kind = "thrown", !.id = started + 1,
                                          !.source = request.source,
                                          !.format = request.format,
                                          !.options = request.options,
                                          !.error = checked.error,
                                          !.appended = 1,
                                          !.response = [status |-> 500, success |-> FALSE,
                                                        error |-> checked.error,
                                                        recordCount |-> 0]]
                /\ scrapingHistory' = logScrapingActivity(scrapingHistory, appends,
                                                          started + 1, request.source,
                                                          request.format, 0, FALSE)
                /\ appends' = appends + 1
                /\ UNCHANGED pending
    /\ UNCHANGED <<scrapers, scraperConfigs, workload, inv, browserField, requestCounts, now, rate>>

\* the route calls scrapeData, which either throws at once or calls the adapter's
\* scrape and suspends at the await
ScrapeBegin(request, budget, inflight) ==
    /\ request.source # "" /\ request.format # ""
    /\ started < budget
    /\ Len(pending) < inflight
    /\ started' = started + 1
    /\ LET checked == scrapeDataValidate(request)
       IN  IF checked.ok
           THEN /\ pending' = Append(pending,
                                     [id |-> started + 1,
                                      source |-> request.source, format |-> request.format,
                                      options |-> request.options,
                                      scraper |-> getScraper(request.source), invoked |-> 1])
                /\ UNCHANGED last
           ELSE /\ last' = [NoLast EXCEPT !.kind = "thrown", !.id = started + 1,
                                          !.source = request.source,
                                          !.format = request.format,
                                          !.options = request.options,
                                          !.error = checked.error,
                                          !.response = [status |-> 500, success |-> FALSE,
                                                        error |-> checked.error,
                                                        recordCount |-> 0]]
                /\ UNCHANGED pending
    /\ UNCHANGED <<scrapers, scraperConfigs, scrapingHistory, appends, workload, inv, browserField, requestCounts, now, rate>>

\* ScraperRegistry.register(scraper), called by whoever holds the class
Register(scraper) ==
    /\ started < MaxRegistrations
    /\ started' = started + 1
    /\ LET maps == register([scrapers |-> scrapers, scraperConfigs |-> scraperConfigs],
                            scraper)
       IN  /\ scrapers' = maps.scrapers
           /\ scraperConfigs' = maps.scraperConfigs
    /\ last' = [NoLast EXCEPT !.kind = "register", !.id = started + 1,
                              !.source = getConfig(scraper).id]
    /\ UNCHANGED <<scrapingHistory, appends, pending, workload, inv, browserField, requestCounts, now, rate>>

\* ScraperRegistry.initializeScrapers(), on the maps as they stand
InitializeScrapers ==
    /\ started < MaxRegistrations
    /\ started' = started + 1
    /\ LET maps == RegisterAll([scrapers |-> scrapers, scraperConfigs |-> scraperConfigs],
                               InitialScrapers)
       IN  /\ scrapers' = maps.scrapers
           /\ scraperConfigs' = maps.scraperConfigs
    /\ last' = [NoLast EXCEPT !.kind = "initialize", !.id = started + 1]
    /\ UNCHANGED <<scrapingHistory, appends, pending, workload, inv, browserField, requestCounts, now, rate>>

\* router.get('/sources'): the listing getAvailableSources() returns
GetSources ==
    /\ last' = [NoLast EXCEPT !.kind = "sources",
                              !.sources = getAvailableSources(scraperConfigs),
                              !.response = [status |-> 200, success |-> TRUE,
                                            error |-> << >>, recordCount |-> 0]]
    /\ UNCHANGED <<scrapers, scraperConfigs, scrapingHistory, appends, started, pending,
                   workload, inv, browserField, requestCounts, now, rate>>

\* router.get('/status'): what getScrapingStatus() returns
GetStatus ==
    /\ last' = [NoLast EXCEPT !.kind = "status",
                              !.status = getScrapingStatus(scraperConfigs, scrapingHistory),
                              !.response = [status |-> 200, success |-> TRUE,
                                            error |-> << >>, recordCount |-> 0]]
    /\ UNCHANGED <<scrapers, scraperConfigs, scrapingHistory, appends, started, pending,
                   workload, inv, browserField, requestCounts, now, rate>>

\* scrape() of a fixture adapter followed by formatData: the records are cut with
\* applyLimit and handed to the formatter
FormatData(records, options, format) ==
    /\ LET data == applyLimit(records, options)
       IN  last' = [NoLast EXCEPT !.kind = "formatted", !.format = format,
                                  !.options = options, !.adapterOk = TRUE,
                                  !.adapterCount = Len(data), !.adapterData = data,
                                  !.recordCount = Len(data),
                                  !.data = formatData(data, format)]
    /\ UNCHANGED <<scrapers, scraperConfigs, scrapingHistory, appends, started, pending,
                   workload, inv, browserField, requestCounts, now, rate>>

\* formatData handed a single object instead of an array of records
FormatValue(object, format) ==
    /\ last' = [NoLast EXCEPT !.kind = "formattedValue", !.format = format,
                              !.adapterOk = TRUE, !.adapterData = object,
                              !.data = formatDataNonArray(object, format)]
    /\ UNCHANGED <<scrapers, scraperConfigs, scrapingHistory, appends, started, pending,
                   workload, inv, browserField, requestCounts, now, rate>>

\* BullishMarketsScraper.scrape up to its axios.get: the timeout and headers the
\* request is sent with are those of getMergedOptions(options)
MergeOptions(config, options) ==
    /\ LET mergedOptions == getMergedOptions(config, options)
       IN  last' = [NoLast EXCEPT !.kind = "merged",
                                  !.merged = [config |-> config, options |-> options,
                                              timeout |-> mergedOptions.timeout,
                                              headers |-> mergedOptions.headers]]
    /\ UNCHANGED <<scrapers, scraperConfigs, scrapingHistory, appends, started, pending,
                   workload, inv, browserField, requestCounts, now, rate>>

\* the body router.post('/test') hands to scrapeData
TestRequest == [source |-> "test", format |-> "json", options |-> WithLimit(5)]

\* a test route that registers a fixture adapter under 'test' before it scrapes
ScrapeTestRegistersFixture(budget, inflight) ==
    /\ started < budget
    /\ Len(pending) < inflight
    /\ started' = started + 1
    /\ LET fixture == Renamed(Bullish, TestRequest.source)
           maps == register([scrapers |-> scrapers, scraperConfigs |-> scraperConfigs],
                            fixture)
       IN  /\ scrapers' = maps.scrapers
           /\ scraperConfigs' = maps.scraperConfigs
           /\ pending' = Append(pending,
                                [id |-> started + 1, source |-> TestRequest.source,
                                 format |-> TestRequest.format,
                                 options |-> TestRequest.options,
                                 scraper |-> fixture, invoked |-> 1])
    /\ UNCHANGED <<last, scrapingHistory, appends, workload, inv, browserField, requestCounts, now, rate>>

\* router.post('/test'): scrapeData(testRequest) without a try/catch of its own; what
\* scrapeData throws goes through asyncHandler to errorHandler, which answers with
\* err.statusCode || 500 and { success: false, error: err.message }
ScrapeTest(budget, inflight) == ScrapeBegin(TestRequest, budget, inflight)

\* Array.prototype.splice(p, 1) on the suspended calls
Without(s, p) == [k \in 1..(Len(s) - 1) |-> IF k < p THEN s[k] ELSE s[k + 1]]

\* the adapter promise of suspended call p settles, given the upstream answer
ScrapeSettle(p, up) ==
    /\ p \in 1..Len(pending)
    /\ LET call == pending[p]
           result == HttpScrape(call.scraper.class, call.options, up)
           out == scrapeDataSettle(scrapingHistory, appends, call, result)
       IN  /\ scrapingHistory' = out.history
           /\ appends' = appends + out.pushes
           /\ pending' = Without(pending, p)
           /\ last' = [kind |-> IF out.returned THEN "returned" ELSE "thrown",
                       id |-> call.id,
                       source |-> call.source, format |-> call.format,
                       options |-> call.options,
                       invoked |-> call.invoked, net |-> result.net,
                       appended |-> out.pushes,
                       adapterOk |-> result.ok, adapterCount |-> result.recordCount,
                       adapterData |-> result.data,
                       data |-> out.data, recordCount |-> out.recordCount,
                       error |-> out.error,
                       response |-> IF out.returned
                                    THEN [status |-> 200, success |-> TRUE, error |-> << >>,
                                          recordCount |-> out.recordCount]
                                    ELSE [status |-> 500, success |-> FALSE,
                                          error |-> out.error, recordCount |-> 0]]
    /\ UNCHANGED <<scrapers, scraperConfigs, started, workload, inv, browserField, requestCounts, now, rate>>

\* ------------------------------------------------- direct adapter calls
\* One invocation of scrape(): pc is where it stands, browser/page are its two local
\* handles ("none" = null, "open", "closed"), events are the calls it made on
\* axios/puppeteer so far, navs are the page.goto calls it made (strategy and how each
\* ended), answer is what the upstream page or API gave it, result is what it settles
\* with once pc = "done".
IdleInvocation ==
    [pc |-> "idle", adapter |-> "", options |-> NoOptions, browser |-> "none",
     page |-> "none", events |-> << >>, navs |-> << >>,
     answer |-> [kind |-> "none", n |-> 0, bad |-> {}], result |-> Rejected(<< >>, 0, 0)]

Count(events, e) == Cardinality({k \in 1..Len(events) : events[k] = e})

ServiceUnchanged ==
    UNCHANGED <<scrapers, scraperConfigs, scrapingHistory, appends, started, pending,
                last, workload, browserField, requestCounts, now, rate>>

\* validateOptions(options), then the first await of scrape()
Invoke(i, a, options) ==
    /\ inv[i].pc = "idle"
    /\ inv' = [inv EXCEPT ![i] =
                 IF validateOptionsThrows(options)
                 THEN [@ EXCEPT !.pc = "done", !.adapter = a, !.options = options,
                                !.result = Rejected(LimitError, 0, 0)]
                 ELSE [@ EXCEPT !.pc = IF a = Epic THEN "launch" ELSE "http",
                                !.adapter = a, !.options = options]]
    /\ ServiceUnchanged

\* the axios request of an HTTP adapter settles; the rest of scrape() runs
HttpSettle(i, up) ==
    /\ inv[i].pc = "http"
    /\ inv' = [inv EXCEPT ![i] =
                 [@ EXCEPT !.pc = "done", !.events = Append(@, "http"), !.answer = up,
                           !.result = HttpScrape(inv[i].adapter, inv[i].options, up)]]
    /\ ServiceUnchanged

\* --- EpicGamesTopSellersScraper.scrape, one action per await
LaunchMessage == <<"Failed", "to", "launch", "the", "browser", "process">>
ProtocolMessage == <<"Protocol", "error:", "Target", "closed">>
DetachedMessage == <<"Navigating", "frame", "was", "detached">>
TimeoutMessage == <<"Navigation", "timeout", "exceeded">>
NoGamesMessage == <<"No", "game", "data", "could", "be", "parsed", "from", "Epic", "Games", "Store">>
LoadFailedMessage(status) == <<"Failed", "to", "load", "page:">> \o status

\* what page.goto can do: throw, or give a response (ok, not ok, or null)
GotoOutcomes ==
    {[throws |-> FALSE, response |-> "ok", message |-> << >>],
     [throws |-> FALSE, response |-> "notok", message |-> << >>],
     [throws |-> FALSE, response |-> "null", message |-> << >>],
     [throws |-> TRUE, response |-> "null", message |-> DetachedMessage],
     [throws |-> TRUE, response |-> "null", message |-> TimeoutMessage]}

\* an error reaches the outer catch: it is wrapped, and the finally block is entered
EpicCatch(r, message) ==
    [r EXCEPT !.result = Rejected(Wrap(Epic, message), Count(r.events, "goto"), 0),
              !.pc = IF r.page # "none" THEN "closePage"
                     ELSE IF r.browser # "none" THEN "closeBrowser" ELSE "done"]

\* the try block returns: the finally block is entered
EpicReturn(r, data, extracted) ==
    [r EXCEPT !.result = Resolved(data, extracted, Count(r.events, "goto"), 0),
              !.pc = IF r.page # "none" THEN "closePage"
                     ELSE IF r.browser # "none" THEN "closeBrowser" ELSE "done"]

EpicLaunch(i, ok) ==
    /\ inv[i].pc = "launch"
    /\ LET r == [inv[i] EXCEPT !.events = Append(@, "launch")]
       IN  inv' = [inv EXCEPT ![i] =
                     IF ok THEN [r EXCEPT !.browser = "open", !.pc = "newPage"]
                     ELSE EpicCatch(r, LaunchMessage)]
    /\ ServiceUnchanged

EpicNewPage(i, ok) ==
    /\ inv[i].pc = "newPage"
    /\ LET r == [inv[i] EXCEPT !.events = Append(@, "newPage")]
       IN  inv' = [inv EXCEPT ![i] =
                     IF ok THEN [r EXCEPT !.page = "open", !.pc = "setUserAgent"]
                     ELSE EpicCatch(r, ProtocolMessage)]
    /\ ServiceUnchanged

EpicSetUserAgent(i, ok) ==
    /\ inv[i].pc = "setUserAgent"
    /\ LET r == [inv[i] EXCEPT !.events = Append(@, "setUserAgent")]
       IN  inv' = [inv EXCEPT ![i] =
                     IF ok THEN [r EXCEPT !.pc = "setExtraHTTPHeaders"]
                     ELSE EpicCatch(r, ProtocolMessage)]
    /\ ServiceUnchanged

EpicSetExtraHTTPHeaders(i, ok) ==
    /\ inv[i].pc = "setExtraHTTPHeaders"
    /\ LET r == [inv[i] EXCEPT !.events = Append(@, "setExtraHTTPHeaders")]
       IN  inv' = [inv EXCEPT ![i] =
                     IF ok THEN [r EXCEPT !.pc = "goto"]
                     ELSE EpicCatch(r, ProtocolMessage)]
    /\ ServiceUnchanged

\* `if (!response || !response.ok()) throw`, on the response variable as it stands
EpicCheckResponse(r, response) ==
    IF response = "ok" THEN [r EXCEPT !.pc = "settle"]
    ELSE EpicCatch(r, LoadFailedMessage(IF response = "notok" THEN <<"404">>
                                        ELSE <<"Unknown", "error">>))

\* one page.goto call: the strategy it waited with and how it ended (the error it
\* threw, or the response it resolved with)
Navigation(waitUntil, outcome) ==
    [waitUntil |-> waitUntil, threw |-> outcome.throws, message |-> outcome.message,
     response |-> outcome.response]

\* a first page.goto whose catch block retries after every error
EpicGotoRetriesAnyError(i, outcome) ==
    /\ inv[i].pc = "goto"
    /\ LET r == [inv[i] EXCEPT !.events = Append(@, "goto"),
                               !.navs = Append(@, Navigation("domcontentloaded", outcome))]
       IN  inv' = [inv EXCEPT ![i] =
                     IF outcome.throws
                     THEN [r EXCEPT !.pc = "gotoLoad"]
                     ELSE EpicCheckResponse(r, outcome.response)]
    /\ ServiceUnchanged

\* the first page.goto (waitUntil: 'domcontentloaded')
EpicGoto(i, outcome) ==
    /\ inv[i].pc = "goto"
    /\ LET r == [inv[i] EXCEPT !.events = Append(@, "goto"),
                               !.navs = Append(@, Navigation("domcontentloaded", outcome))]
       IN  inv' = [inv EXCEPT ![i] =
                     IF outcome.throws
                     THEN IF Includes(outcome.message, "detached")
                          THEN [r EXCEPT !.pc = "gotoLoad"]
                          ELSE EpicCatch(r, outcome.message)
                     ELSE EpicCheckResponse(r, outcome.response)]
    /\ ServiceUnchanged

\* the second page.goto (waitUntil: 'load'); its response is not assigned, so the
\* check that follows reads the variable still undefined
EpicGotoLoad(i, outcome) ==
    /\ inv[i].pc = "gotoLoad"
    /\ LET r == [inv[i] EXCEPT !.events = Append(@, "goto"),
                               !.navs = Append(@, Navigation("load", outcome))]
       IN  inv' = [inv EXCEPT ![i] =
                     IF outcome.throws
                     THEN EpicCatch(r, outcome.message)
                     ELSE EpicCheckResponse(r, "null")]
    /\ ServiceUnchanged

\* the fixed 3000 ms wait
EpicSettle(i) ==
    /\ inv[i].pc = "settle"
    /\ inv' = [inv EXCEPT ![i] = [@ EXCEPT !.pc = "evaluate"]]
    /\ ServiceUnchanged

EpicRecord(i) ==
    << <<"name", V(i)>>, <<"price", V(i)>>, <<"discountPercentage", V(i)>>,
       <<"discountedPrice", V(i)>>, <<"link", V(i)>>, <<"rank", V(i)>> >>

\* page.evaluate: up.kind "neterr" = it throws; else up.n elements matched the first
\* selector that matched any, those in up.bad have no name
EpicEvaluate(i, up) ==
    /\ inv[i].pc = "evaluate"
    /\ LET r == [inv[i] EXCEPT !.events = Append(@, "evaluate"), !.answer = up]
           gamesData == Map(Usable(up), EpicRecord)
           limitedData == applyLimit(gamesData, r.options)
       IN  inv' = [inv EXCEPT ![i] =
                     IF up.kind = "neterr" THEN EpicCatch(r, ProtocolMessage)
                     ELSE IF Len(gamesData) = 0 THEN EpicCatch(r, NoGamesMessage)
                     ELSE EpicReturn(r, limitedData, gamesData)]
    /\ ServiceUnchanged

\* a finally block whose page.close is not guarded: its failure skips browser.close
EpicClosePageUnguarded(i, ok) ==
    /\ inv[i].pc = "closePage"
    /\ inv' = [inv EXCEPT ![i] =
                 [@ EXCEPT !.events = Append(@, "page.close"),
                           !.page = IF ok THEN "closed" ELSE @,
                           !.pc = IF ok /\ inv[i].browser # "none" THEN "closeBrowser"
                                  ELSE "done"]]
    /\ ServiceUnchanged

\* finally: `if (page) try { await page.close() } catch { warn }`
EpicClosePage(i, ok) ==
    /\ inv[i].pc = "closePage"
    /\ inv' = [inv EXCEPT ![i] =
                 [@ EXCEPT !.events = Append(@, "page.close"),
                           !.page = IF ok THEN "closed" ELSE @,
                           !.pc = IF inv[i].browser # "none" THEN "closeBrowser" ELSE "done"]]
    /\ ServiceUnchanged

\* a finally block that closes the browsers of all invocations, as one that closed a
\* browser shared through the instance would
EpicCloseBrowserShared(i, ok) ==
    /\ inv[i].pc = "closeBrowser"
    /\ inv' = [k \in DOMAIN inv |->
                 IF k = i
                 THEN [inv[k] EXCEPT !.events = Append(@, "browser.close"),
                                     !.browser = IF ok THEN "closed" ELSE @,
                                     !.pc = "done"]
                 ELSE [inv[k] EXCEPT !.browser = IF ok /\ @ = "open" THEN "closed" ELSE @]]
    /\ ServiceUnchanged

\* finally: `if (browser) try { await browser.close() } catch { warn }`
EpicCloseBrowser(i, ok) ==
    /\ inv[i].pc = "closeBrowser"
    /\ inv' = [inv EXCEPT ![i] =
                 [@ EXCEPT !.events = Append(@, "browser.close"),
                           !.browser = IF ok THEN "closed" ELSE @,
                           !.pc = "done"]]
    /\ ServiceUnchanged

\* ------------------------------------------------------ rate limiter
\* req.ip of the clients that send requests
ClientIPs == {"10.0.0.1", "10.0.0.2"}

\* requestCounts.get(clientIP) of an address the map has no entry for
NoClientRecord == [has |-> FALSE, count |-> 0, resetTime |-> 0]

\* a limiter that refuses the request whose count reaches the maximum
rateLimiterAtMaximum(counts, clientIP, t) ==
    LET found == counts[clientIP]
        clientRecord == IF ~found.has \/ t > found.resetTime
                        THEN [has |-> TRUE, count |-> 1, resetTime |-> t + WINDOW_MS]
                        ELSE [found EXCEPT !.count = @ + 1]
        exceeded == clientRecord.count >= MAX_REQUESTS
    IN  [counts |-> [counts EXCEPT ![clientIP] = clientRecord],
         status |-> IF exceeded THEN 429 ELSE 200,
         next |-> ~exceeded,
         remaining |-> IF exceeded THEN 0 - 1
                       ELSE Max(0, MAX_REQUESTS - clientRecord.count)]

\* rateLimiter(req, res, next) at Date.now() = t: the map it leaves, the status it
\* answers with (200 = it did not answer), whether it called next(), and the
\* X-RateLimit-Remaining header it set (-1 = it set none)
rateLimiter(counts, clientIP, t) ==
    LET found == counts[clientIP]
        clientRecord == IF ~found.has \/ t > found.resetTime
                        THEN [has |-> TRUE, count |-> 1, resetTime |-> t + WINDOW_MS]
                        ELSE [found EXCEPT !.count = @ + 1]
        exceeded == clientRecord.count > MAX_REQUESTS
    IN  [counts |-> [counts EXCEPT ![clientIP] = clientRecord],
         status |-> IF exceeded THEN 429 ELSE 200,
         next |-> ~exceeded,
         remaining |-> IF exceeded THEN 0 - 1
                       ELSE Max(0, MAX_REQUESTS - clientRecord.count)]

\* admitted[ip] and windows[ip] count, for the run so far, the requests of ip passed
\* on in its current window and the windows ip has started
NoRate ==
    [ip |-> "", status |-> 0, next |-> FALSE, remaining |-> 0 - 1, count |-> 0,
     admitted |-> [ip \in ClientIPs |-> 0], windows |-> [ip \in ClientIPs |-> 0]]

\* a request of clientIP reaches the middleware when the clock shows t
RateLimit(clientIP, t) ==
    /\ t >= now
    /\ t <= MaxNow
    /\ \/ ~requestCounts[clientIP].has
       \/ t > requestCounts[clientIP].resetTime
       \/ requestCounts[clientIP].count < MAX_REQUESTS + MaxOver
    /\ LET out == rateLimiter(requestCounts, clientIP, t)
           fresh == ~requestCounts[clientIP].has \/ t > requestCounts[clientIP].resetTime
           passed == IF out.next THEN 1 ELSE 0
       IN  /\ requestCounts' = out.counts
           /\ now' = t
           /\ rate' = [ip |-> clientIP, status |-> out.status, next |-> out.next,
                       remaining |-> out.remaining,
                       count |-> out.counts[clientIP].count,
                       admitted |-> [rate.admitted EXCEPT ![clientIP] =
                                       IF fresh THEN passed ELSE @ + passed],
                       windows |-> [rate.windows EXCEPT ![clientIP] =
                                      IF fresh THEN @ + 1 ELSE @]]
    /\ UNCHANGED <<scrapers, scraperConfigs, scrapingHistory, appends, started, pending,
                   last, workload, inv, browserField>>

\* ------------------------------------------------------------------ inputs
Up(kind, n, bad) == [kind |-> kind, n |-> n, bad |-> bad]

OkAnswers(counts) == {Up("ok", n, {}) : n \in counts}

\* which elements of an n-element page lack a required sub-field
BadSets(n) == {{}, {1} \cap (1..n), {2, n} \cap (1..n), 1..n}

\* the upstream answers each adapter is tried against
Upstreams(a) ==
    CASE a = Bullish ->
            {Up("neterr", 0, {})}
            \cup {Up("ok", n, bad) : n \in {0, MinMarkets - 1}, bad \in {{}}}
            \cup UNION {{Up("ok", n, bad) : bad \in BadSets(n)} :
                        n \in {MinMarkets, MinMarkets + 1}}
      [] a = QuickBooks ->
            {Up("neterr", 0, {}), Up("malformed", 0, {})}
            \cup UNION {{Up("ok", n, bad) : bad \in SUBSET (1..n)} : n \in 0..QuickBooksPlans}
      [] a = Turing ->
            {Up("neterr", 0, {}), Up("malformed", 0, {}), Up("null", 0, {})}
            \cup OkAnswers(0..MaxItems)
      [] a = Steam ->
            {Up("neterr", 0, {}), Up("malformed", 0, {})}
            \cup OkAnswers((0..MaxItems) \cup {SteamMax, SteamMax + 1})
      [] OTHER ->
            {Up("neterr", 0, {}), Up("malformed", 0, {})} \cup OkAnswers(0..MaxItems)

Formats == {"json", "csv", "xml"}

Sources == {InitialScrapers[k] : k \in 1..Len(InitialScrapers)} \cup {"does-not-exist"}

RequestOptions == {NoOptions, WithLimit(0 - 1), WithLimit(2)}

\* the answers the requests of the service specification meet
ServiceUpstreams(a) ==
    {up \in Upstreams(a) :
        \/ up.kind = "neterr"
        \/ up.kind = "ok" /\ up.bad = {} /\ up.n = (IF a = Bullish THEN MinMarkets ELSE MaxItems)}

\* the registered ids, in registration order
Registered == {InitialScrapers[k] : k \in 1..Len(InitialScrapers)}

\* a run of the service specification names one registered source (next to an unknown
\* one) and the options its requests carry
Workloads ==
    {[source |-> a, format |-> "", options |-> o, ups |-> << >>] :
        a \in Registered, o \in RequestOptions}

Requests ==
    [source : {workload.source, "does-not-exist"}, format : Formats,
     options : {workload.options}]

MissingRequests ==
    {[source |-> "", format |-> "json", options |-> NoOptions],
     [source |-> workload.source, format |-> "", options |-> NoOptions]}

\* a run of the long-run specification repeats one request; call c meets the answer
\* ups[((c - 1) % Len(ups)) + 1]
LogWorkloads ==
    {[source |-> GitHub, format |-> "json", options |-> NoOptions,
      ups |-> <<Up("ok", MaxItems, {})>>],
     [source |-> Bullish, format |-> "csv", options |-> WithLimit(2),
      ups |-> <<Up("ok", MinMarkets, {}), Up("neterr", 0, {})>>],
     [source |-> Turing, format |-> "json", options |-> WithLimit(1),
      ups |-> <<Up("neterr", 0, {}), Up("ok", 1, {}), Up("null", 0, {})>>],
     [source |-> Spotify, format |-> "csv", options |-> WithLimit(0 - 1),
      ups |-> <<Up("ok", MaxItems, {})>>],
     [source |-> QuickBooks, format |-> "json", options |-> NoOptions,
      ups |-> <<Up("ok", QuickBooksPlans, {1}), Up("malformed", 0, {})>>]}

WorkloadRequest == [source |-> workload.source, format |-> workload.format,
                    options |-> workload.options]

WorkloadAnswer(call) == workload.ups[((call - 1) % Len(workload.ups)) + 1]

\* the limits scrape() is tried with directly
AdapterOptions ==
    {NoOptions}
    \cup {WithLimit(l) : l \in ((0 - 2)..MaxItems)
                              \cup {SteamMax, SteamMax + 1, GitHubMax, GitHubMax + 1,
                                    TuringMax, TuringMax + 1}}

\* what page.evaluate is tried with
EpicAnswers ==
    {Up("neterr", 0, {})} \cup UNION {{Up("ok", n, bad) : bad \in BadSets(n)} : n \in 0..MaxItems}

\* ----------------------------------------------------------- specification
\* the state once `new ScrapingService()` has run
ServiceInit ==
    /\ scrapers = initializeScrapers.scrapers
    /\ scraperConfigs = initializeScrapers.scraperConfigs
    /\ scrapingHistory = << >>
    /\ appends = 0
    /\ started = 0
    /\ pending = << >>
    /\ last = NoLast
    /\ browserField = "null"
    /\ requestCounts = [ip \in ClientIPs |-> NoClientRecord]
    /\ now = 0
    /\ rate = NoRate

Init ==
    /\ ServiceInit
    /\ workload \in Workloads
    /\ inv = << >>

Next ==
    \/ \E request \in MissingRequests : ScrapeMissing(request)
    \/ \E request \in Requests : ScrapeBegin(request, MaxCalls, MaxInFlight)
    \/ ScrapeTest(MaxCalls, MaxInFlight)
    \/ GetSources
    \/ GetStatus
    \/ \E p \in 1..Len(pending) : \E up \in ServiceUpstreams(pending[p].scraper.class) :
          ScrapeSettle(p, up)

Spec == Init /\ [][Next]_vars

\* the service under a long stream of one request, one call at a time
InitLog ==
    /\ ServiceInit
    /\ workload \in LogWorkloads
    /\ inv = << >>

NextLog ==
    \/ ScrapeBegin(WorkloadRequest, LogCalls, 1)
    \/ GetStatus
    \/ \E p \in 1..Len(pending) : ScrapeSettle(p, WorkloadAnswer(pending[p].id))

SpecLog == InitLog /\ [][NextLog]_vars

\* the scraper objects handed to register()
RegistryScrapers ==
    {NewScraper(a) : a \in {Bullish, GitHub, Steam, Epic}}
    \cup {Disabled(Bullish), Disabled(Epic), Renamed(Steam, Bullish)}

\* a value with a comma in it, one with a line break in it, and a plain one
FieldValues == {"x", "a,b", "a\nb"}

\* records handed to the formatter: two key orders, a record that lacks a key, values
\* with and without separators in them
FormatRecords ==
    {<< <<"name", v>>, <<"price", "1">> >> : v \in FieldValues}
    \cup {<< <<"price", "2">>, <<"name", "y">> >>, << <<"name", "z">> >>}

RECURSIVE SeqsUpTo(_, _)
SeqsUpTo(S, n) ==
    IF n = 0 THEN {<< >>}
    ELSE LET shorter == SeqsUpTo(S, n - 1)
         IN  shorter \cup {Append(s, x) : s \in shorter, x \in S}

\* the five-record fixture
Fixture == [i \in 1..5 |-> << <<"name", V(i)>>, <<"price", V(i)>> >>]

FormatInputs == SeqsUpTo(FormatRecords, MaxRows) \cup {Fixture}

FormatOptions == {NoOptions, WithLimit(3)}

\* formatData applied to record sequences
InitFormat ==
    /\ ServiceInit
    /\ workload = [source |-> "", format |-> "", options |-> NoOptions, ups |-> << >>]
    /\ inv = << >>

NextFormat ==
    \/ \E records \in FormatInputs : \E options \in FormatOptions : \E format \in Formats :
          FormatData(records, options, format)
    \/ \E object \in FormatRecords : \E format \in Formats : FormatValue(object, format)

SpecFormat == InitFormat /\ [][NextFormat]_vars

\* getMergedOptions applied to descriptors and caller options
HeaderSets ==
    {<< >>,
     << <<"User-Agent", "Mozilla/5.0">> >>,
     << <<"User-Agent", "Mozilla/5.0">>, <<"Accept", "text/html">> >>,
     << <<"User-Agent", "curl/8">> >>,
     << <<"X-Trace", "1">> >>,
     << <<"Accept", "application/json">>, <<"X-Trace", "1">> >>}

Descriptors == [timeout : {0, 5000, DefaultTimeout}, headers : HeaderSets]

CallerOptions ==
    {NoCallOptions}
    \cup {CallOptions(FALSE, 0, FALSE, << >>)}
    \cup {CallOptions(TRUE, t, FALSE, << >>) : t \in {1000, 5000}}
    \cup {CallOptions(FALSE, 0, TRUE, h) : h \in HeaderSets}
    \cup {CallOptions(TRUE, 1000, TRUE, h) : h \in HeaderSets}

InitOptions ==
    /\ ServiceInit
    /\ workload = [source |-> "", format |-> "", options |-> NoOptions, ups |-> << >>]
    /\ inv = << >>

NextOptions ==
    \E config \in Descriptors : \E options \in CallerOptions : MergeOptions(config, options)

SpecOptions == InitOptions /\ [][NextOptions]_vars

\* the registry's static maps from class initialisation on, under register calls
InitRegistry ==
    /\ scrapers = << >>
    /\ scraperConfigs = << >>
    /\ scrapingHistory = << >>
    /\ appends = 0
    /\ started = 0
    /\ pending = << >>
    /\ last = NoLast
    /\ browserField = "null"
    /\ requestCounts = [ip \in ClientIPs |-> NoClientRecord]
    /\ now = 0
    /\ rate = NoRate
    /\ workload = [source |-> "", format |-> "", options |-> NoOptions, ups |-> << >>]
    /\ inv = << >>

NextRegistry ==
    \/ \E scraper \in RegistryScrapers : Register(scraper)
    \/ InitializeScrapers
    \/ GetSources
    \/ GetStatus

SpecRegistry == InitRegistry /\ [][NextRegistry]_vars

\* the call after which requests arrive while earlier ones are still awaited
BurstFrom == HistoryCap - 2

\* the service under a stream of one request that fills the log one call at a time and
\* ends in a burst of overlapping calls, which settle in any order
InitBurst ==
    /\ ServiceInit
    /\ workload \in LogWorkloads
    /\ inv = << >>

NextBurst ==
    \/ ScrapeBegin(WorkloadRequest, BurstFrom + BurstSize,
                   IF started < BurstFrom THEN 1 ELSE MaxInFlight)
    \/ \E p \in 1..Len(pending) : ScrapeSettle(p, WorkloadAnswer(pending[p].id))

SpecBurst == InitBurst /\ [][NextBurst]_vars

\* two scrape() calls on one EpicGamesTopSellersScraper instance, overlapping at
\* their awaits in any order
InitEpic ==
    /\ ServiceInit
    /\ workload = [source |-> "", format |-> "", options |-> NoOptions, ups |-> << >>]
    /\ inv = <<IdleInvocation, IdleInvocation>>

\* what the page holds when two calls overlap
EpicPages == {Up("neterr", 0, {}), Up("ok", 0, {}), Up("ok", 2, {})}

NextEpic ==
    \/ \E i \in DOMAIN inv : \E options \in {NoOptions, WithLimit(0 - 1)} :
          Invoke(i, Epic, options)
    \/ \E i \in DOMAIN inv : \E ok \in BOOLEAN : EpicLaunch(i, ok)
    \/ \E i \in DOMAIN inv : \E ok \in BOOLEAN : EpicNewPage(i, ok)
    \/ \E i \in DOMAIN inv : \E ok \in BOOLEAN : EpicSetUserAgent(i, ok)
    \/ \E i \in DOMAIN inv : \E ok \in BOOLEAN : EpicSetExtraHTTPHeaders(i, ok)
    \/ \E i \in DOMAIN inv : \E outcome \in GotoOutcomes : EpicGoto(i, outcome)
    \/ \E i \in DOMAIN inv : \E outcome \in GotoOutcomes : EpicGotoLoad(i, outcome)
    \/ \E i \in DOMAIN inv : EpicSettle(i)
    \/ \E i \in DOMAIN inv : \E up \in EpicPages : EpicEvaluate(i, up)
    \/ \E i \in DOMAIN inv : \E ok \in BOOLEAN : EpicClosePage(i, ok)
    \/ \E i \in DOMAIN inv : \E ok \in BOOLEAN : EpicCloseBrowser(i, ok)

SpecEpic == InitEpic /\ [][NextEpic]_vars

\* scrape() called on each of the seven adapters directly
InitAdapter ==
    /\ ServiceInit
    /\ workload = [source |-> "", format |-> "", options |-> NoOptions, ups |-> << >>]
    /\ inv = <<IdleInvocation>>

NextAdapter ==
    \/ \E i \in DOMAIN inv : \E a \in Adapters : \E options \in AdapterOptions :
          Invoke(i, a, options)
    \/ \E i \in DOMAIN inv : \E up \in UNION {Upstreams(a) : a \in HttpAdapters} :
          /\ inv[i].adapter \in HttpAdapters
          /\ up \in Upstreams(inv[i].adapter)
          /\ HttpSettle(i, up)
    \/ \E i \in DOMAIN inv : \E ok \in BOOLEAN : EpicLaunch(i, ok)
    \/ \E i \in DOMAIN inv : \E ok \in BOOLEAN : EpicNewPage(i, ok)
    \/ \E i \in DOMAIN inv : \E ok \in BOOLEAN : EpicSetUserAgent(i, ok)
    \/ \E i \in DOMAIN inv : \E ok \in BOOLEAN : EpicSetExtraHTTPHeaders(i, ok)
    \/ \E i \in DOMAIN inv : \E outcome \in GotoOutcomes : EpicGoto(i, outcome)
    \/ \E i \in DOMAIN inv : \E outcome \in GotoOutcomes : EpicGotoLoad(i, outcome)
    \/ \E i \in DOMAIN inv : EpicSettle(i)
    \/ \E i \in DOMAIN inv : \E up \in EpicAnswers : EpicEvaluate(i, up)
    \/ \E i \in DOMAIN inv : \E ok \in BOOLEAN : EpicClosePage(i, ok)
    \/ \E i \in DOMAIN inv : \E ok \in BOOLEAN : EpicCloseBrowser(i, ok)

SpecAdapter == InitAdapter /\ [][NextAdapter]_vars

\* requests of the clients arriving at the rate limiter as the clock advances
InitRate ==
    /\ ServiceInit
    /\ workload = [source |-> "", format |-> "", options |-> NoOptions, ups |-> << >>]
    /\ inv = << >>

NextRate == \E clientIP \in ClientIPs : \E t \in 0..MaxNow : RateLimit(clientIP, t)

SpecRate == InitRate /\ [][NextRate]_vars

\* ------------------------------------------------------------------ claims
\* String.prototype.toLowerCase on the words that occur
Lower(word) ==
    CASE word = "Not" -> "not"
      [] word = "NOT" -> "not"
      [] word = "Found" -> "found"
      [] word = "FOUND" -> "found"
      [] OTHER -> word

\* /not found/i
MatchesNotFound(message) ==
    \E k \in 1..(Len(message) - 1) :
        Lower(message[k]) = "not" /\ Lower(message[k + 1]) = "found"

\* the message says 'not supported'
MatchesNotSupported(message) ==
    \E k \in 1..(Len(message) - 1) : message[k] = "not" /\ message[k + 1] = "supported"

IsPrefix(s, t) == Len(s) <= Len(t) /\ \A k \in 1..Len(s) : s[k] = t[k]

\* C1: after N appends the activity log holds exactly the last min(N, 100) entries in
\* append order; after 150 logged calls its length is 100 and its oldest entry is the
\* one call #51 appended.
C1_LogKeepsLast100 ==
    /\ Len(scrapingHistory) = Min(appends, HistoryCap)
    /\ \A k \in 1..Len(scrapingHistory) :
          scrapingHistory[k].seq = appends - Len(scrapingHistory) + k
    /\ appends = 150 =>
          /\ Len(scrapingHistory) = 100
          /\ scrapingHistory[1].seq = 51
          /\ scrapingHistory[1].call = 51

C1_Witness ==
    /\ appends = 150
    /\ Len(scrapingHistory) = 100
    /\ scrapingHistory[1].call = 51
    /\ scrapingHistory[100].call = 150

\* the entries of the log that call c appended
EntriesOf(c) == {k \in 1..Len(scrapingHistory) : scrapingHistory[k].call = c}

\* the request that finished last had passed scrapeData's validation
LastValidated == last.kind \in {"returned", "thrown"} /\ last.invoked = 1

\* C2: a scrapeData call that passed validation has appended exactly one entry when it
\* returns or throws: success = TRUE with the adapter result's recordCount when it
\* returns, success = FALSE with recordCount 0 when it throws.
C2_OneEntryPerValidatedCall ==
    /\ \A c \in 1..started : Cardinality(EntriesOf(c)) <= 1
    /\ LastValidated =>
          /\ last.appended = 1
          /\ Cardinality(EntriesOf(last.id)) = 1
          /\ LET entry == scrapingHistory[Len(scrapingHistory)]
             IN  /\ entry.call = last.id
                 /\ entry.source = last.source
                 /\ entry.format = last.format
                 /\ entry.success = (last.kind = "returned")
                 /\ entry.success = last.adapterOk
                 /\ entry.recordCount = IF last.adapterOk THEN last.adapterCount ELSE 0

C2_Witness ==
    /\ LastValidated
    /\ last.kind = "returned"
    /\ last.adapterCount = 2
    /\ Len(scrapingHistory) = 2
    /\ ~scrapingHistory[1].success
    /\ scrapingHistory[2].success
    /\ scrapingHistory[2].recordCount = 2

\* the request a step has just handed to scrapeData
Begun == started' = started + 1
NewRequest == IF Len(pending') > Len(pending) THEN pending'[Len(pending')] ELSE last'

\* source r.source is not registered, or does not list r.format
Unacceptable(r) ==
    \/ ~MapHas(scrapers, r.source)
    \/ ~Includes(MapGet(scrapers, r.source).config.supportedFormats, r.format)

\* C3: scrapeData called with an unregistered source or an unsupported format fails
\* at once and leaves the activity log and the catalog as they were, without any
\* adapter scrape.
C3_FailFastNoSideEffects ==
    [][(Begun /\ NewRequest.source # "" /\ NewRequest.format # "" /\ Unacceptable(NewRequest))
        => /\ last'.kind = "thrown"
           /\ last'.id = started'
           /\ last'.invoked = 0
           /\ last'.net = 0
           /\ pending' = pending
           /\ scrapingHistory' = scrapingHistory
           /\ appends' = appends
           /\ scrapers' = scrapers
           /\ scraperConfigs' = scraperConfigs]_vars

C3_Witness ==
    /\ last.kind = "thrown"
    /\ last.invoked = 0
    /\ last.error = UnsupportedError("xml", last.source)
    /\ Len(scrapingHistory) = 1
    /\ Len(pending) = 0

\* the request that finished last named a source that is not registered
LastUnknownSource == last.kind = "thrown" /\ last.source # "" /\ ~MapHas(scrapers, last.source)

\* C4 as stated: a request for an unregistered source fails with /not found/i and a
\* failure entry with recordCount 0 is appended for it.
C4_UnknownSourceIsLogged ==
    LastUnknownSource =>
        /\ ~last.response.success
        /\ MatchesNotFound(last.response.error)
        /\ \E k \in EntriesOf(last.id) :
              ~scrapingHistory[k].success /\ scrapingHistory[k].recordCount = 0

\* C4 amended: a request for an unregistered source fails with /not found/i and no
\* entry is appended for it.
C4_UnknownSourceNotLogged ==
    LastUnknownSource =>
        /\ ~last.response.success
        /\ last.response.status = 500
        /\ MatchesNotFound(last.response.error)
        /\ EntriesOf(last.id) = {}
        /\ last.appended = 0

C4_Witness ==
    /\ LastUnknownSource
    /\ last.source = "does-not-exist"
    /\ last.format = "json"
    /\ last.id = 2
    /\ Len(scrapingHistory) = 1

\* C5: an adapter's scrape is invoked only for a format in its supportedFormats,
\* supportsFormat(f) is true exactly for those, and a request for another format
\* fails with 'not supported' before any adapter scrape.
C5_OnlySupportedFormatsReachAdapter ==
    /\ \A k \in 1..Len(scrapers) : \A f \in Formats :
          supportsFormat(scrapers[k].value, f)
             <=> f \in {scrapers[k].value.config.supportedFormats[j] :
                           j \in 1..Len(scrapers[k].value.config.supportedFormats)}
    /\ \A p \in 1..Len(pending) :
          Includes(pending[p].scraper.config.supportedFormats, pending[p].format)
    /\ \A k \in 1..Len(scrapingHistory) :
          Includes(MapGet(scraperConfigs, scrapingHistory[k].source).supportedFormats,
                   scrapingHistory[k].format)
    /\ (last.kind \in {"returned", "thrown"} /\ MapHas(scrapers, last.source)
          /\ ~Includes(MapGet(scraperConfigs, last.source).supportedFormats, last.format))
       => /\ last.kind = "thrown"
          /\ MatchesNotSupported(last.error)
          /\ last.invoked = 0
          /\ last.net = 0

C5_Witness ==
    /\ last.kind = "thrown"
    /\ last.source = Bullish
    /\ last.format = "xml"
    /\ MatchesNotSupported(last.error)
    /\ last.invoked = 0

\* a direct invocation that has settled
Done(i) == inv[i].pc = "done"

\* the limit the invocation was given, when it was given one
Limited(i) == inv[i].options.has

\* C6 as stated: for every adapter and every limit L <= 0 the scrape fails with
\* 'Limit must be greater than 0' and no upstream call or browser launch is made.
C6_NonPositiveLimitRejected ==
    \A i \in DOMAIN inv :
        (inv[i].pc # "idle" /\ Limited(i) /\ inv[i].options.limit <= 0)
        => /\ Done(i)
           /\ ~inv[i].result.ok
           /\ inv[i].result.err = LimitError
           /\ inv[i].events = << >>
           /\ inv[i].result.net = 0

\* the most items the upstream API of an adapter hands out; the adapters without such
\* a maximum are bounded by the limit alone
UpstreamMax(a, limit) ==
    CASE a = GitHub -> GitHubMax
      [] a = Turing -> TuringMax
      [] a = Steam  -> SteamMax
      [] OTHER      -> limit

\* C7 as stated: for every adapter and limit L > 0 a successful scrape returns
\* recordCount <= min(L, upstream maximum), whatever upstream returned.
C7_RecordCountWithinLimit ==
    \A i \in DOMAIN inv :
        (Done(i) /\ inv[i].result.ok /\ Limited(i) /\ inv[i].options.limit > 0)
        => inv[i].result.recordCount
              <= Min(inv[i].options.limit, UpstreamMax(inv[i].adapter, inv[i].options.limit))

\* C8: every ScraperResult an adapter returns has recordCount = length(data), and a
\* JSON-format scrapeData call on it returns that recordCount with data of that length.
C8_RecordCountIsDataLength ==
    \A i \in DOMAIN inv :
        (Done(i) /\ inv[i].result.ok)
        => /\ inv[i].result.recordCount = Len(inv[i].result.data)
           /\ LET call == [id |-> 1, source |-> inv[i].adapter, format |-> "json"]
                  out == scrapeDataSettle(scrapingHistory, appends, call, inv[i].result)
              IN  /\ out.returned
                  /\ out.recordCount = Len(out.data)
                  /\ out.data = inv[i].result.data

C8_Witness ==
    \E i \in DOMAIN inv :
        /\ Done(i)
        /\ inv[i].result.ok
        /\ inv[i].adapter = Bullish
        /\ inv[i].result.recordCount = 2
        /\ Len(inv[i].result.extracted) = MinMarkets

\* the adapters that apply the limit with applyLimit(data, options?.limit)
UsesApplyLimit == {Bullish, QuickBooks, Spotify, Epic}

\* C9: applyLimit(data, L) with L > 0 is the first min(L, length(data)) elements of
\* data in order, and data itself without a limit; the records an adapter returns are
\* a prefix, in source order, of the records it extracted.
C9_LimitIsStablePrefix ==
    \A i \in DOMAIN inv :
        (Done(i) /\ inv[i].result.ok)
        => LET data == inv[i].result.extracted
               options == inv[i].options
           IN  /\ (options.has /\ options.limit > 0)
                     => applyLimit(data, options)
                          = SubSeq(data, 1, Min(options.limit, Len(data)))
               /\ ~options.has => applyLimit(data, options) = data
               /\ IsPrefix(inv[i].result.data, data)
               /\ inv[i].adapter \in UsesApplyLimit
                     => inv[i].result.data = applyLimit(data, options)

C9_Witness ==
    \E i \in DOMAIN inv :
        /\ Done(i)
        /\ inv[i].result.ok
        /\ inv[i].adapter = QuickBooks
        /\ inv[i].options = WithLimit(2)
        /\ Len(inv[i].result.extracted) = 3
        /\ inv[i].result.data = SubSeq(inv[i].result.extracted, 1, 2)
        /\ inv[i].result.extracted[1][1] = <<"plan", V(2)>>

\* the place of the first event e in the events of invocation i (0 when absent)
Place(i, e) ==
    IF \E k \in 1..Len(inv[i].events) : inv[i].events[k] = e
    THEN CHOOSE k \in 1..Len(inv[i].events) :
            inv[i].events[k] = e /\ \A j \in 1..(k - 1) : inv[i].events[j] # e
    ELSE 0

\* C10: once the browser was launched, every way out of EpicGamesTopSellersScraper's
\* scrape calls page.close exactly once (when a page was opened) and then
\* browser.close exactly once, also when page.close fails; nothing is closed twice
\* and the browser is never closed before the page.
C10_PageThenBrowserClosedOnce ==
    \A i \in DOMAIN inv :
        /\ Count(inv[i].events, "page.close") <= 1
        /\ Count(inv[i].events, "browser.close") <= 1
        /\ (Place(i, "browser.close") # 0 /\ inv[i].page # "none")
              => (Place(i, "page.close") # 0
                    /\ Place(i, "page.close") < Place(i, "browser.close"))
        /\ (Done(i) /\ inv[i].adapter = Epic)
              => /\ Count(inv[i].events, "browser.close")
                       = (IF inv[i].browser # "none" THEN 1 ELSE 0)
                 /\ Count(inv[i].events, "page.close")
                       = (IF inv[i].page # "none" THEN 1 ELSE 0)
                 /\ inv[i].browser # "none"
                       => inv[i].events[Len(inv[i].events)] = "browser.close"

C10_Witness ==
    \E i \in DOMAIN inv :
        /\ Done(i)
        /\ inv[i].adapter = Epic
        /\ inv[i].page = "open"
        /\ Count(inv[i].events, "page.close") = 1
        /\ Count(inv[i].events, "browser.close") = 1
        /\ inv[i].browser = "closed"
        /\ inv[i].result.ok

\* the invocation has left the navigation step of scrape()
PastNavigation(i) ==
    inv[i].pc \in {"settle", "evaluate", "closePage", "closeBrowser", "done"}

\* C11: the headless-browser adapter calls page.goto at most twice per scrape; the
\* second call ('load') is made only after the first ('domcontentloaded') threw an
\* error whose message contains 'detached', and only once; a second call that throws,
\* or a first call that throws any other error, ends the scrape with that failure.
C11_AtMostTwoNavigations ==
    \A i \in DOMAIN inv :
        LET navs == inv[i].navs
        IN  /\ Len(navs) <= 2
            /\ Count(inv[i].events, "goto") = Len(navs)
            /\ Len(navs) >= 1 => navs[1].waitUntil = "domcontentloaded"
            /\ inv[i].pc = "gotoLoad" <=>
                   (Len(navs) = 1 /\ navs[1].threw /\ Includes(navs[1].message, "detached"))
            /\ Len(navs) = 2 =>
                   /\ navs[2].waitUntil = "load"
                   /\ navs[1].threw /\ Includes(navs[1].message, "detached")
                   /\ PastNavigation(i)
                   /\ navs[2].threw =>
                          /\ ~inv[i].result.ok
                          /\ inv[i].result.err = Wrap(Epic, navs[2].message)
                          /\ inv[i].pc # "settle" /\ inv[i].pc # "evaluate"
            /\ (Len(navs) = 1 /\ navs[1].threw /\ ~Includes(navs[1].message, "detached")) =>
                   /\ PastNavigation(i)
                   /\ ~inv[i].result.ok
                   /\ inv[i].result.err = Wrap(Epic, navs[1].message)
                   /\ inv[i].pc # "settle" /\ inv[i].pc # "evaluate"

C11_Witness ==
    \E i \in DOMAIN inv :
        /\ Done(i)
        /\ Len(inv[i].navs) = 2
        /\ inv[i].navs[2].threw
        /\ inv[i].navs[2].message = TimeoutMessage
        /\ ~inv[i].result.ok
        /\ inv[i].browser = "closed"

\* the request handled last ended in an error inside scrapeData
LastFailedInScrapeData == last.kind \in {"returned", "thrown"} /\ last.error # << >>

\* C12 as stated: no error of scrapeData reaches the route layer as a thrown
\* exception; each comes back as a failure result value.
C12_ErrorsReturnedAsValues ==
    /\ last.kind # "thrown"
    /\ LastFailedInScrapeData => last.kind = "returned"

\* C12 amended: every error of scrapeData (unknown source, unsupported format, adapter
\* failure) is thrown to the calling route handler; the success=false envelope with the
\* error's message is what the route layer answers with (status 500), and scrapeData
\* returns a value only on success.
C12_ErrorsThrownToRoute ==
    /\ LastFailedInScrapeData =>
          /\ last.kind = "thrown"
          /\ last.response.status = 500
          /\ ~last.response.success
          /\ last.response.error = last.error
    /\ last.kind = "returned" =>
          /\ last.error = << >>
          /\ last.adapterOk
          /\ last.response.status = 200
          /\ last.response.success
    /\ (last.kind = "thrown" /\ last.invoked = 1) => ~last.adapterOk

C12_Witness ==
    /\ last.kind = "thrown"
    /\ last.invoked = 1
    /\ last.error = Wrap(last.source, NetworkMessage)
    /\ last.response.status = 500
    /\ last.id = 2
    /\ Len(scrapingHistory) = 1

\* part occurs in message as a contiguous run of words
Contains(message, part) ==
    \E k \in 0..(Len(message) - Len(part)) :
        \A j \in 1..Len(part) : message[k + j] = part[j]

\* the request handled last failed inside the adapter's scrape
LastAdapterFailure == last.kind = "thrown" /\ last.invoked = 1

\* C13: when the adapter's scrape fails, the error scrapeData throws is the adapter's
\* error as it is: the upstream error's message, unchanged, behind the adapter's
\* 'Failed to scrape ...: ' prefix (or the option error itself when the adapter made no
\* request), and the route reports that same message.
C13_OriginalMessagePreserved ==
    LastAdapterFailure =>
        /\ ~last.adapterOk
        /\ last.net = 0 => last.error = LimitError
        /\ last.net >= 1 =>
               /\ Contains(last.error, NetworkMessage)
               /\ last.error = FailedPrefix(last.source) \o NetworkMessage
        /\ last.response.error = last.error

C13_Witness ==
    /\ LastAdapterFailure
    /\ last.source = QuickBooks
    /\ last.net = 1
    /\ Contains(last.response.error, NetworkMessage)
    /\ Len(last.response.error) > Len(NetworkMessage)

\* C14 as stated: a validated scrapeData request invokes scrape once and the HTTP
\* adapter issues exactly one upstream request in that invocation, success or failure.
C14_ExactlyOneRequestPerScrape ==
    /\ last.invoked <= 1
    /\ \A p \in 1..Len(pending) : pending[p].invoked = 1
    /\ LastValidated => last.net = 1

\* C14 amended: scrape is invoked at most once per scrapeData request, exactly once
\* when validation passes; the invocation issues exactly one upstream request when its
\* options pass validateOptions, whether the request succeeds or fails, and none when
\* validateOptions rejects them; nothing is repeated after a failure.
C14_OneAttemptNoRetry ==
    /\ last.invoked <= 1
    /\ \A p \in 1..Len(pending) : pending[p].invoked = 1
    /\ last.kind = "thrown" /\ Unacceptable(last) => last.invoked = 0 /\ last.net = 0
    /\ LastValidated =>
          /\ last.invoked = 1
          /\ last.net = IF validateOptionsThrows(last.options) THEN 0 ELSE 1
          /\ Cardinality(EntriesOf(last.id)) = 1
    /\ \A c \in 1..started : Cardinality(EntriesOf(c)) <= 1

C14_Witness ==
    /\ LastValidated
    /\ last.kind = "thrown"
    /\ ~validateOptionsThrows(last.options)
    /\ last.net = 1
    /\ last.source = Spotify

\* no key occurs twice in the map
DistinctKeys(m) == \A j, k \in 1..Len(m) : m[j].key = m[k].key => j = k

\* C15: after any sequence of register calls the adapter map and the descriptor map
\* have the same keys, each once; getScraper(id) is an adapter whose getConfig().id is
\* id and getConfig(id) is that adapter's descriptor, so a later registration under an
\* id has replaced adapter and descriptor together.
C15_RegistryMapsAgree ==
    /\ MapKeys(scrapers) = MapKeys(scraperConfigs)
    /\ DistinctKeys(scrapers)
    /\ DistinctKeys(scraperConfigs)
    /\ \A k \in 1..Len(scrapers) :
          LET id == scrapers[k].key
          IN  /\ hasScraper(id)
              /\ getConfig(getScraper(id)).id = id
              /\ getConfigById(id) = getConfig(getScraper(id))
    /\ last.kind = "register" =>
          /\ hasScraper(last.source)
          /\ getConfigById(last.source) = getConfig(getScraper(last.source))

C15_Witness ==
    /\ started = 2
    /\ last.kind = "register"
    /\ Len(scrapers) = 1
    /\ getScraper(Bullish) = Renamed(Steam, Bullish)
    /\ getConfigById(Bullish) = getConfig(Renamed(Steam, Bullish))

\* C16: once the service is constructed, no scrapeData, getAvailableSources or
\* getScrapingStatus call, successful or failing, changes the catalog: both maps stay
\* what initializeScrapers made them, entry for entry and field for field.
C16_CatalogReadOnly ==
    /\ scrapers = initializeScrapers.scrapers
    /\ scraperConfigs = initializeScrapers.scraperConfigs
    /\ \A k \in 1..Len(scrapers) :
          /\ scrapers[k].value = NewScraper(InitialScrapers[k])
          /\ scraperConfigs[k].value = ScraperConfig(InitialScrapers[k])

C16_Witness ==
    /\ last.kind = "status"
    /\ last.status.totalScrapes = 2
    /\ \E k \in 1..2 : scrapingHistory[k].success
    /\ \E k \in 1..2 : ~scrapingHistory[k].success
    /\ scraperConfigs = initializeScrapers.scraperConfigs

\* C17 as stated: after initializeScrapers every adapter class of the repository,
\* 'epic-games-top-sellers' and 'steam-top-sellers' included, is registered under its
\* descriptor id, and a scrapeData request for that id passes the source lookup.
C17_AllDefinedAdaptersRegistered ==
    \A a \in Adapters :
        /\ hasScraper(a)
        /\ getConfig(getScraper(a)).id = a
        /\ scrapeDataValidate([source |-> a, format |-> "json", options |-> NoOptions]).ok

\* C18: getScrapingStatus reports totalScrapes = the log's length (at most 100) and
\* recentActivity = the min(10, length) entries appended last, newest first; the log
\* is the same after the call.
C18_StatusReflectsLog ==
    LET status == getScrapingStatus(scraperConfigs, scrapingHistory)
        n == Len(scrapingHistory)
        recent == status.recentActivity
    IN  /\ status.totalScrapes = n
        /\ status.totalScrapes <= HistoryCap
        /\ Len(recent) = Min(10, n)
        /\ \A k \in 1..Len(recent) :
              /\ recent[k] = scrapingHistory[n + 1 - k]
              /\ recent[k].seq = appends + 1 - k
        /\ last.kind = "status" =>
              /\ last.status = status
              /\ last.status.totalScrapes = Len(scrapingHistory)
              /\ Len(scrapingHistory) = Min(appends, HistoryCap)

C18_Witness ==
    /\ last.kind = "status"
    /\ appends = 150
    /\ last.status.totalScrapes = 100
    /\ Len(last.status.recentActivity) = 10
    /\ last.status.recentActivity[1].seq = 150
    /\ last.status.recentActivity[10].seq = 141
    /\ scrapingHistory[1].seq = 51

\* where key sits in the map
Pos(m, key) == CHOOSE k \in 1..Len(m) : m[k].key = key

\* C19: getAvailableSources lists exactly the registered descriptors with enabled =
\* true, each once, in the order their ids were first registered (a registered id
\* keeps its place, a new id goes last); getScrapingStatus.activeSources is the length
\* of that listing; a descriptor with enabled = false is not listed.
C19_ListingIsEnabledInOrder ==
    /\ [](LET listing == getAvailableSources(scraperConfigs)
              status == getScrapingStatus(scraperConfigs, scrapingHistory)
          IN  /\ \A k \in 1..Len(listing) :
                    /\ listing[k].enabled
                    /\ MapHas(scraperConfigs, listing[k].id)
                    /\ MapGet(scraperConfigs, listing[k].id).enabled
                    /\ listing[k].supportedFormats
                          = MapGet(scraperConfigs, listing[k].id).supportedFormats
              /\ \A j, k \in 1..Len(listing) :
                    j < k => Pos(scraperConfigs, listing[j].id)
                               < Pos(scraperConfigs, listing[k].id)
              /\ \A k \in 1..Len(scraperConfigs) :
                    scraperConfigs[k].value.enabled
                    <=> \E j \in 1..Len(listing) : listing[j].id = scraperConfigs[k].key
              /\ status.activeSources = Len(listing)
              /\ last.kind = "sources" => last.sources = listing
              /\ last.kind = "status" => last.status.activeSources = Len(listing))
    /\ [][/\ Len(scraperConfigs') >= Len(scraperConfigs)
          /\ \A k \in 1..Len(scraperConfigs) :
                scraperConfigs'[k].key = scraperConfigs[k].key]_vars

C19_Witness ==
    /\ last.kind = "sources"
    /\ MapKeys(scraperConfigs) = <<GitHub, Epic, Bullish>>
    /\ ~getConfigById(Epic).enabled
    /\ Len(last.sources) = 2
    /\ last.sources[1].id = GitHub
    /\ last.sources[2].id = Bullish

\* the characters of a text, as far as separators go: a value with a comma or a line
\* break in it falls apart at that character
RECURSIVE Explode(_)
Explode(text) ==
    IF text = << >> THEN << >>
    ELSE (CASE Head(text) = "a,b"  -> <<"a", ",", "b">>
            [] Head(text) = "a\nb" -> <<"a", "\n", "b">>
            [] OTHER -> <<Head(text)>>) \o Explode(Tail(text))

\* String.prototype.split(sep) on exploded text: the pieces between separators
RECURSIVE Split(_, _)
Split(text, sep) ==
    IF \A k \in 1..Len(text) : text[k] # sep THEN <<text>>
    ELSE LET at == CHOOSE k \in 1..Len(text) :
                      text[k] = sep /\ \A j \in 1..(k - 1) : text[j] # sep
         IN  <<SubSeq(text, 1, at - 1)>> \o Split(SubSeq(text, at + 1, Len(text)), sep)

\* no value of any record has a comma or a line break in it
PlainValues(records) ==
    \A r \in 1..Len(records) : \A k \in 1..Len(records[r]) :
        Explode(<<records[r][k][2]>>) = <<records[r][k][2]>>

\* the last step formatted a non-empty record sequence with plain values as CSV
LastPlainCsv ==
    /\ last.kind = "formatted"
    /\ last.format = "csv"
    /\ Len(last.adapterData) > 0
    /\ PlainValues(last.adapterData)

\* C20: for a non-empty record sequence without commas or line breaks in its values,
\* formatData(records, 'csv') has 1 + length(records) lines; the first line split at
\* ',' gives the first record's keys in their order, and line i + 1 split at ','
\* gives record i's values for those keys in that order (a missing one as '').
C20_CsvHeaderAndRows ==
    LastPlainCsv =>
        LET records == last.adapterData
            lines == Split(Explode(last.data), "\n")
            headers == Keys(records[1])
        IN  /\ Len(lines) = 1 + Len(records)
            /\ Split(lines[1], ",") = [h \in 1..Len(headers) |-> <<headers[h]>>]
            /\ \A i \in 1..Len(records) :
                  Split(lines[i + 1], ",")
                     = [h \in 1..Len(headers) |-> <<Get(records[i], headers[h])>>]

C20_Witness ==
    /\ LastPlainCsv
    /\ last.options = WithLimit(3)
    /\ last.adapterData = SubSeq(Fixture, 1, 3)
    /\ Len(Split(Explode(last.data), "\n")) = 4

\* C21: formatData(data, 'json') is data itself, for arrays and other values alike, so
\* formatting the result as JSON again changes nothing.
C21_JsonIsIdentity ==
    /\ (last.kind = "formatted" /\ last.format = "json") =>
          /\ last.data = last.adapterData
          /\ formatData(formatData(last.adapterData, "json"), "json")
                = formatData(last.adapterData, "json")
          /\ formatData(last.data, "json") = last.data
    /\ (last.kind = "formattedValue" /\ last.format = "json") =>
          /\ last.data = last.adapterData
          /\ formatDataNonArray(last.data, "json") = last.data

C21_Witness ==
    /\ last.kind = "formatted"
    /\ last.format = "json"
    /\ Len(last.adapterData) = 2
    /\ last.adapterData[1][1][2] = "a,b"
    /\ last.data = last.adapterData

\* the tokens that directly follow each occurrence of marker in text, in order
RECURSIVE After(_, _)
After(text, marker) ==
    IF Len(text) < 2 THEN << >>
    ELSE (IF text[1] = marker THEN <<text[2]>> ELSE << >>) \o After(Tail(text), marker)

\* the keys, or the values, of all records one after the other
RECURSIVE Flatten(_, _)
Flatten(records, part) ==
    IF records = << >> THEN << >>
    ELSE [k \in 1..Len(records[1]) |-> records[1][k][part]] \o Flatten(Tail(records), part)

\* C22: formatData(records, 'xml') is one <data> element holding one <item id="i">
\* per record, i the record's zero-based index in sequence order, each with one child
\* element per key of the record in key order, the value as its text; a value that is
\* not a sequence is put as one string into the single <data> element.
C22_XmlItemsAndWrapper ==
    /\ (last.kind = "formatted" /\ last.format = "xml") =>
          LET records == last.adapterData
              out == last.data
          IN  /\ Head(out) = "<data>"
              /\ out[Len(out)] = "</data>"
              /\ Count(out, "<data>") = 1
              /\ Count(out, "</data>") = 1
              /\ Count(out, "</item>") = Len(records)
              /\ After(out, "<item id=\"") = [i \in 1..Len(records) |-> ToString(i - 1)]
              /\ After(out, "<") = Flatten(records, 1)
              /\ After(out, "</") = Flatten(records, 1)
              /\ Len(out) = 2 + 4 * Len(records) + 7 * Len(Flatten(records, 1))
              /\ \A i \in 1..Len(records) :
                    \E k \in 1..Len(out) :
                        /\ out[k] = "<item id=\"" /\ out[k + 1] = ToString(i - 1)
                        /\ out[k + 3 + 7 * Len(records[i])] = "</item>"
                        /\ \A j \in 1..Len(records[i]) :
                              SubSeq(out, k + 3 + 7 * (j - 1), k + 2 + 7 * j)
                                = <<"<", records[i][j][1], ">", records[i][j][2],
                                    "</", records[i][j][1], ">">>
    /\ (last.kind = "formattedValue" /\ last.format = "xml") =>
          LET out == last.data
          IN  /\ Head(out) = "<data>"
              /\ out[Len(out)] = "</data>"
              /\ Count(out, "<data>") = 1
              /\ Count(out, "<item id=\"") = 0
              /\ SubSeq(out, 2, Len(out) - 1) = Stringify(last.adapterData)

C22_Witness ==
    /\ last.kind = "formatted"
    /\ last.format = "xml"
    /\ Len(last.adapterData) = 2
    /\ Len(last.adapterData[1]) = 2
    /\ Len(last.adapterData[2]) = 1
    /\ After(last.data, "<item id=\"") = <<"0", "1">>

\* C23: whatever the interleaving of overlapping scrapeData calls, every call that
\* has settled has exactly one entry among the last 100 appended, none twice; the log
\* holds the entries in the order the calls settled, loses only its oldest entry when
\* full, and is never longer than 100.
C23_AppendsSerialized ==
    /\ [](/\ Len(scrapingHistory) <= HistoryCap
          /\ Len(scrapingHistory) = Min(appends, HistoryCap)
          /\ appends = started - Len(pending)
          /\ \A c \in 1..started : Cardinality(EntriesOf(c)) <= 1
          /\ \A k \in 1..Len(scrapingHistory) :
                /\ scrapingHistory[k].seq = appends - Len(scrapingHistory) + k
                /\ \A p \in 1..Len(pending) : scrapingHistory[k].call # pending[p].id
          /\ LastValidated =>
                /\ scrapingHistory[Len(scrapingHistory)].call = last.id
                /\ scrapingHistory[Len(scrapingHistory)].success = (last.kind = "returned"))
    /\ [][scrapingHistory' # scrapingHistory =>
            /\ appends' = appends + 1
            /\ \E p \in 1..Len(pending) :
                  scrapingHistory'[Len(scrapingHistory')].call = pending[p].id
            /\ SubSeq(scrapingHistory', 1, Len(scrapingHistory') - 1)
                  = IF Len(scrapingHistory) = HistoryCap
                    THEN Tail(scrapingHistory)
                    ELSE scrapingHistory]_vars

C23_Witness ==
    /\ appends = HistoryCap + 2
    /\ Len(scrapingHistory) = HistoryCap
    /\ Len(pending) = 0
    /\ scrapingHistory[HistoryCap].call = HistoryCap
    /\ scrapingHistory[HistoryCap - 1].call = HistoryCap + 2
    /\ scrapingHistory[HistoryCap - 2].call = HistoryCap + 1
    /\ scrapingHistory[1].seq = 3

\* C24: overlapping scrape() calls on one headless-browser adapter instance each
\* launch their own browser and page, at most once, and close only their own: a
\* call's handles change only in that call's own steps, and the instance's browser
\* field holds no handle at any time.
C24_HandlesAreCallScoped ==
    /\ [](/\ browserField = "null"
          /\ \A i \in DOMAIN inv :
                /\ Count(inv[i].events, "launch") <= 1
                /\ Count(inv[i].events, "newPage") <= 1
                /\ Count(inv[i].events, "page.close") <= 1
                /\ Count(inv[i].events, "browser.close") <= 1
                /\ inv[i].browser # "none" => Count(inv[i].events, "launch") = 1
                /\ inv[i].page # "none" =>
                      Count(inv[i].events, "newPage") = 1 /\ inv[i].browser # "none"
                /\ inv[i].browser = "closed" => Count(inv[i].events, "browser.close") = 1
                /\ inv[i].page = "closed" => Count(inv[i].events, "page.close") = 1
                /\ (Done(i) /\ inv[i].browser # "none") =>
                      Count(inv[i].events, "browser.close") = 1)
    /\ [][\A i \in DOMAIN inv :
            inv'[i] # inv[i] => \A j \in DOMAIN inv : j # i => inv'[j] = inv[j]]_vars

C24_Witness ==
    /\ Done(1)
    /\ inv[1].browser = "closed"
    /\ inv[1].page = "closed"
    /\ inv[2].pc = "evaluate"
    /\ inv[2].browser = "open"
    /\ inv[2].page = "open"
    /\ browserField = "null"

\* C25 as stated: a scrape succeeds only with at least one extracted record: every
\* successful adapter result, the scrapeData result made of it and the log entry
\* written for it have recordCount >= 1, and a run that extracts nothing fails.
C25_SuccessNeedsARecord ==
    \A i \in DOMAIN inv :
        Done(i) =>
            /\ inv[i].result.ok => inv[i].result.recordCount >= 1
            /\ inv[i].result.ok =>
                  LET call == [id |-> 1, source |-> inv[i].adapter, format |-> "json"]
                      out == scrapeDataSettle(scrapingHistory, appends, call, inv[i].result)
                  IN  /\ out.recordCount >= 1
                      /\ \A k \in 1..Len(out.history) :
                            out.history[k].success => out.history[k].recordCount >= 1
            /\ (inv[i].events # << >> /\ Len(inv[i].result.extracted) = 0) =>
                  ~inv[i].result.ok

Nth(set, k) == CHOOSE i \in set : Cardinality({j \in set : j <= i}) = k

\* invocation i ran the Bullish adapter and the page was fetched
BullishFetched(i) ==
    /\ Done(i)
    /\ inv[i].adapter = Bullish
    /\ inv[i].events = <<"http">>
    /\ inv[i].answer.kind = "ok"

\* C27: once the Bullish page is fetched, the scrape fails exactly when fewer than 20
\* elements match or no matched element has both a name and a 24h volume; otherwise
\* it succeeds, the elements lacking one of the two are left out, the others come in
\* document order, each with rank = its index among all matches + 1, and the caller's
\* limit keeps a prefix of them.
C27_BullishSkipsUnusable ==
    \A i \in DOMAIN inv :
        BullishFetched(i) =>
            LET n == inv[i].answer.n
                usable == (1..n) \ inv[i].answer.bad
                r == inv[i].result
                limit == inv[i].options.limit
                kept == IF inv[i].options.has /\ limit > 0 /\ limit < Cardinality(usable)
                        THEN limit ELSE Cardinality(usable)
            IN  /\ r.ok <=> (n >= MinMarkets /\ usable # {})
                /\ r.ok =>
                      /\ Len(r.extracted) = Cardinality(usable)
                      /\ \A k \in 1..Len(r.extracted) :
                            /\ Get(r.extracted[k], "rank") = ToString(Nth(usable, k))
                            /\ Get(r.extracted[k], "market") = V(Nth(usable, k))
                      /\ r.data = SubSeq(r.extracted, 1, kept)
                      /\ r.recordCount = kept

\* a page of at least 20 matches whose first element is unusable was scraped
C27_Witness ==
    \E i \in DOMAIN inv :
        /\ BullishFetched(i)
        /\ inv[i].result.ok
        /\ 1 \in inv[i].answer.bad
        /\ Get(inv[i].result.extracted[1], "rank") = "2"

\* the three adapters that read a JSON API, and the page size each API allows
JsonAdapters == {GitHub, Turing, Steam}

PageSizeMax(a) ==
    CASE a = GitHub -> GitHubMax
      [] a = Turing -> TuringMax
      [] a = Steam  -> SteamMax

\* C28: a JSON-API adapter given a limit L above the upstream maximum still makes its
\* request, asks for the maximum as page size and succeeds when the upstream answers;
\* given 0 < L <= maximum it asks for L, and given no limit it asks for the maximum.
C28_LimitClampedToUpstreamMax ==
    \A i \in DOMAIN inv :
        (Done(i) /\ inv[i].adapter \in JsonAdapters) =>
            LET max == PageSizeMax(inv[i].adapter)
                has == inv[i].options.has
                L == inv[i].options.limit
                r == inv[i].result
            IN  /\ (has /\ L > max) =>
                      /\ inv[i].events = <<"http">>
                      /\ r.net = 1
                      /\ r.pageSize = max
                      /\ inv[i].answer.kind \in {"ok", "null"} => r.ok
                /\ (has /\ L > 0 /\ L <= max) =>
                      (inv[i].events = <<"http">> /\ r.pageSize = L)
                /\ ~has => (inv[i].events = <<"http">> /\ r.pageSize = max)

\* GitHub was asked with a limit one above its maximum and the scrape succeeded
C28_Witness ==
    \E i \in DOMAIN inv :
        /\ Done(i)
        /\ inv[i].adapter = GitHub
        /\ inv[i].options = WithLimit(GitHubMax + 1)
        /\ inv[i].result.ok
        /\ inv[i].result.pageSize = GitHubMax
        /\ inv[i].result.recordCount > 0

\* invocation i made two navigations: the first threw 'frame detached', the fallback
\* resolved with an ok response
FallbackSucceeded(i) ==
    /\ Len(inv[i].navs) = 2
    /\ inv[i].navs[1].threw
    /\ Includes(inv[i].navs[1].message, "detached")
    /\ ~inv[i].navs[2].threw
    /\ inv[i].navs[2].response = "ok"

\* C29 as stated: when the first navigation fails with 'frame detached' and the
\* fallback navigation succeeds, the scrape goes on to the settle wait and the in-page
\* extraction; the navigation step does not fail it.
C29_FallbackSuccessContinues ==
    \A i \in DOMAIN inv :
        FallbackSucceeded(i) =>
            /\ \/ inv[i].pc \in {"settle", "evaluate"}
               \/ Count(inv[i].events, "evaluate") = 1
            /\ Done(i) => ~Includes(inv[i].result.err, "page:")

\* C30 as stated: the headers getMergedOptions returns hold every descriptor header
\* whose key the caller did not give, with the descriptor's value, and every header of
\* the caller, with the caller's value; the timeout it returns is the caller's when
\* given, else the descriptor's, else 30000, and so is always set.
C30_HeadersMergedKeyByKey ==
    last.kind = "merged" =>
        LET m == last.merged
            theirs == IF m.options.given /\ m.options.hasHeaders THEN m.options.headers
                      ELSE << >>
        IN  /\ \A k \in 1..Len(m.config.headers) :
                  LET key == m.config.headers[k][1]
                  IN  ~HasKey(theirs, key) =>
                          /\ HasKey(m.headers, key)
                          /\ Get(m.headers, key) = m.config.headers[k][2]
            /\ \A k \in 1..Len(theirs) :
                  /\ HasKey(m.headers, theirs[k][1])
                  /\ Get(m.headers, theirs[k][1]) = theirs[k][2]
            /\ m.timeout = IF m.options.given /\ m.options.hasTimeout
                           THEN m.options.timeout
                           ELSE IF m.config.timeout # 0 THEN m.config.timeout
                           ELSE DefaultTimeout
            /\ m.timeout > 0

====
